---- MODULE Spec2Model ----
(***************************************************************************)
(* GradeTrack ("SchoolTrack"): the storage layer (DatabaseStorage, the     *)
(* latest revision of server/storage.ts), the relational schema            *)
(* (shared/schema.ts) and the REST handlers (server/routes.ts) that call   *)
(* it, as a state machine over the six tables.                             *)
(*                                                                         *)
(* Numbers.  decimal(5,2) columns hold integers counted in hundredths      *)
(* (45.00 is 4500).  A JavaScript number is a tagged record: an exact      *)
(* rational [k |-> "rat", n, d], NaN or Infinity.  The model computes the  *)
(* quotient exactly; the inputs it draws (whole and half points) are ones  *)
(* on which IEEE-754 double arithmetic gives the same comparisons.         *)
(***************************************************************************)
EXTENDS Integers, Sequences, FiniteSets, TLC

VARIABLES users, students, classes, enrollments, assignments, grades, now, response,
          requests

vars == <<users, students, classes, enrollments, assignments, grades, now, response, requests>>

tables == <<users, students, classes, enrollments, assignments, grades>>

----------------------------------------------------------------------------
(* Bounds of the model *)

MaxClasses == 2
MaxAssignments == 2
MaxEnrollments == 2
MaxGrades == 2
MaxRequests == 2
BelowZero == 5
AboveHundred == 5
StudentClasses == 3

Teachers == {"t1", "t2"}
Admins == {"ad"}
StudentUsers == {"s1", "s2"}
UserIds == Teachers \cup Admins \cup StudentUsers

ClassIds == 1..MaxClasses
AssignmentIds == 1..MaxAssignments
EnrollmentIds == 1..MaxEnrollments
GradeIds == 1..MaxGrades
RequestIds == 1..MaxRequests

----------------------------------------------------------------------------
(* Values: SQL NULL, an absent (undefined) payload field, decimals, numbers *)

Null == [k |-> "null"]
Absent == [k |-> "absent"]
Dec(v) == [k |-> "dec", v |-> v]
DecNaN == [k |-> "nan"]
Failed == [k |-> "err"]

RECURSIVE GCD(_, _)
GCD(a, b) == IF b = 0 THEN a ELSE GCD(b, a % b)

\* The rational n / d (d > 0, n >= 0) in lowest terms
Rat(n, d) == [k |-> "rat", n |-> n \div GCD(n, d), d |-> d \div GCD(n, d)]
NaN == [k |-> "nan"]
Infinity == [k |-> "inf"]

NoLetter == "null"

\* Number(x) of a payload field or column value: Number(undefined) is NaN,
\* Number(null) is 0, Number("45.00") is 45.
Number(x) ==
  CASE x.k = "absent" -> NaN
    [] x.k = "null" -> Rat(0, 1)
    [] x.k = "dec" -> Rat(x.v, 100)
    [] OTHER -> NaN

\* (a / b) * 100 on JavaScript numbers, b >= 0
PercentOf(a, b) ==
  IF a.k = "nan" \/ b.k = "nan" THEN NaN
  ELSE IF b.n = 0 THEN (IF a.n = 0 THEN NaN ELSE Infinity)
  ELSE LET q == Rat(a.n * b.d, a.d * b.n) IN Rat(q.n * 100, q.d)

\* percentage >= t
Ge(percentage, t) ==
  CASE percentage.k = "rat" -> percentage.n >= t * percentage.d
    [] percentage.k = "inf" -> TRUE
    [] OTHER -> FALSE

\* percentage > t
Gt(percentage, t) ==
  CASE percentage.k = "rat" -> percentage.n > t * percentage.d
    [] percentage.k = "inf" -> TRUE
    [] OTHER -> FALSE

\* getLetterGrade comparing with > where the code compares with >=
getLetterGradeStrict(percentage) ==
  IF Gt(percentage, 97) THEN "A+"
  ELSE IF Gt(percentage, 93) THEN "A"
  ELSE IF Gt(percentage, 90) THEN "A-"
  ELSE IF Gt(percentage, 87) THEN "B+"
  ELSE IF Gt(percentage, 83) THEN "B"
  ELSE IF Gt(percentage, 80) THEN "B-"
  ELSE IF Gt(percentage, 77) THEN "C+"
  ELSE IF Gt(percentage, 73) THEN "C"
  ELSE IF Gt(percentage, 70) THEN "C-"
  ELSE IF Gt(percentage, 67) THEN "D+"
  ELSE IF Gt(percentage, 63) THEN "D"
  ELSE IF Gt(percentage, 60) THEN "D-"
  ELSE "F"

getLetterGrade(percentage) ==
  IF Ge(percentage, 97) THEN "A+"
  ELSE IF Ge(percentage, 93) THEN "A"
  ELSE IF Ge(percentage, 90) THEN "A-"
  ELSE IF Ge(percentage, 87) THEN "B+"
  ELSE IF Ge(percentage, 83) THEN "B"
  ELSE IF Ge(percentage, 80) THEN "B-"
  ELSE IF Ge(percentage, 77) THEN "C+"
  ELSE IF Ge(percentage, 73) THEN "C"
  ELSE IF Ge(percentage, 70) THEN "C-"
  ELSE IF Ge(percentage, 67) THEN "D+"
  ELSE IF Ge(percentage, 63) THEN "D"
  ELSE IF Ge(percentage, 60) THEN "D-"
  ELSE "F"

\* The largest magnitude a decimal(5,2) column holds, in hundredths (999.99)
DecimalMax == 99999

\* percentage.toString() written to a decimal(5,2) column: rounded to two
\* places (half away from zero); NaN is a numeric value; Infinity and values
\* of more than three integer digits are rejected by the database.
ToDecimal(x) ==
  CASE x.k = "nan" -> DecNaN
    [] x.k = "inf" -> Failed
    [] x.k = "rat" ->
         LET r == (2 * x.n * 100 + x.d) \div (2 * x.d)
         IN IF r > DecimalMax THEN Failed ELSE Dec(r)
    [] OTHER -> Failed

----------------------------------------------------------------------------
(* Rows and result order.  A query without ORDER BY returns its rows in    *)
(* primary-key order here; student rows follow StudentOrder.               *)

Undefined == "undefined"

StudentOrder == <<"s1", "s2">>

Rank(id) == CHOOSE i \in 1..Len(StudentOrder) : StudentOrder[i] = id

RECURSIVE SortById(_)
SortById(S) ==
  IF S = {} THEN <<>>
  ELSE LET m == CHOOSE r \in S : \A q \in S : r.id <= q.id
       IN <<m>> \o SortById(S \ {m})

RECURSIVE SortStudents(_)
SortStudents(S) ==
  IF S = {} THEN <<>>
  ELSE LET m == CHOOSE r \in S : \A q \in S : Rank(r.id) <= Rank(q.id)
       IN <<m>> \o SortStudents(S \ {m})

RECURSIVE Flatten(_)
Flatten(ss) == IF ss = <<>> THEN <<>> ELSE Head(ss) \o Flatten(Tail(ss))

Map(f(_), s) == [i \in 1..Len(s) |-> f(s[i])]

Range(s) == {s[i] : i \in 1..Len(s)}

Filter(s, P(_)) == SelectSeq(s, P)

UnusedId(rows, ids) == CHOOSE i \in ids : (\A r \in rows : r.id # i) /\ (\A j \in ids : (\A r \in rows : r.id # j) => i <= j)

HasUnusedId(rows, ids) == \E i \in ids : \A r \in rows : r.id # i

ClassRow(id) == CHOOSE c \in classes : c.id = id

AssignmentRow(id) == CHOOSE a \in assignments : a.id = id

StudentRow(id) == CHOOSE s \in students : s.id = id

----------------------------------------------------------------------------
(* DatabaseStorage: reads *)

getUser(id) == {u \in users : u.id = id}

RoleOf(id) == IF getUser(id) = {} THEN Undefined ELSE (CHOOSE u \in getUser(id) : TRUE).role

\* grades INNER JOIN assignments WHERE grades.studentId = id, mapped to
\* { ...grade, assignment }
StudentGradeViews(id) ==
  Map(LAMBDA g : [grade |-> g, assignment |-> AssignmentRow(g.assignmentId)],
      SortById({g \in grades : g.studentId = id /\ \E a \in assignments : a.id = g.assignmentId}))

\* Number(g.percentage || 0), in hundredths; a NULL percentage counts as 0
PercentageOrZero(g) == IF g.percentage.k = "dec" THEN g.percentage.v ELSE 0

RECURSIVE SumPercentages(_)
SumPercentages(gs) ==
  IF gs = <<>> THEN 0 ELSE PercentageOrZero(Head(gs).grade) + SumPercentages(Tail(gs))

\* currentGrade with the letter taken from the rounded mean
CurrentGradeLetterOfRounded(gs) ==
  IF Len(gs) = 0 THEN Absent
  ELSE LET avg == Rat(SumPercentages(gs), 100 * Len(gs))
           rounded == Rat((2 * avg.n + avg.d) \div (2 * avg.d), 1)
       IN [percentage |-> rounded, letterGrade |-> getLetterGrade(rounded)]

\* avg = sum / length; { percentage: Math.round(avg), letterGrade: getLetterGrade(avg) }
CurrentGrade(gs) ==
  IF Len(gs) = 0 THEN Absent
  ELSE IF \E i \in 1..Len(gs) : gs[i].grade.percentage.k = "nan"
       THEN [percentage |-> NaN, letterGrade |-> getLetterGrade(NaN)]
  ELSE LET avg == Rat(SumPercentages(gs), 100 * Len(gs))
       IN [percentage |-> Rat((2 * avg.n + avg.d) \div (2 * avg.d), 1),
           letterGrade |-> getLetterGrade(avg)]

\* students LEFT JOIN users LEFT JOIN enrollments LEFT JOIN classes
StudentJoinRows ==
  Flatten(Map(LAMBDA s :
                LET es == SortById({e \in enrollments : e.studentId = s.id})
                IN IF es = <<>> THEN <<[student |-> s, enrollment |-> Null, class |-> Null]>>
                   ELSE Map(LAMBDA e : [student |-> s, enrollment |-> e,
                                        class |-> IF \E c \in classes : c.id = e.classId
                                                  THEN ClassRow(e.classId) ELSE Null], es),
              SortStudents(students)))

\* The loop without the studentMap: one view per joined row
GroupStudentsPerRow(rows, acc) ==
  acc \o Map(LAMBDA row :
               [id |-> row.student.id,
                enrollments |-> IF row.enrollment # Null /\ row.class # Null
                                THEN <<[enrollment |-> row.enrollment, class |-> row.class]>>
                                ELSE <<>>],
             rows)

\* The studentMap loop: one view per student id, in order of first
\* appearance, its enrollments the rows that carry an enrollment and a class
RECURSIVE GroupStudents(_, _)
GroupStudents(rows, acc) ==
  IF rows = <<>> THEN acc
  ELSE LET row == Head(rows)
           known == \E i \in 1..Len(acc) : acc[i].id = row.student.id
           acc1 == IF known THEN acc
                   ELSE Append(acc, [id |-> row.student.id, enrollments |-> <<>>])
           add == row.enrollment # Null /\ row.class # Null
           acc2 == [i \in 1..Len(acc1) |->
                      IF acc1[i].id = row.student.id /\ add
                      THEN [acc1[i] EXCEPT !.enrollments =
                              Append(@, [enrollment |-> row.enrollment, class |-> row.class])]
                      ELSE acc1[i]]
       IN GroupStudents(Tail(rows), acc2)

\* getStudents with the teacher condition left out of the WHERE clause
getStudentsUnscoped(teacherId) ==
  Map(LAMBDA v : [id |-> v.id, enrollments |-> v.enrollments,
                  grades |-> StudentGradeViews(v.id),
                  currentGrade |-> CurrentGrade(StudentGradeViews(v.id))],
      GroupStudents(StudentJoinRows, <<>>))

getStudents(teacherId) ==
  LET results == IF teacherId # Undefined
                 THEN Filter(StudentJoinRows,
                             LAMBDA row : row.class # Null /\ row.class.teacherId = teacherId)
                 ELSE StudentJoinRows
      studentMap == GroupStudents(results, <<>>)
  IN Map(LAMBDA v : [id |-> v.id, enrollments |-> v.enrollments,
                     grades |-> StudentGradeViews(v.id),
                     currentGrade |-> CurrentGrade(StudentGradeViews(v.id))],
         studentMap)

\* ORDER BY graded_at DESC (rows of equal time in primary-key order)
RECURSIVE SortByGradedAtDesc(_)
SortByGradedAtDesc(S) ==
  IF S = {} THEN <<>>
  ELSE LET m == CHOOSE r \in S : \A q \in S :
                  r.gradedAt > q.gradedAt \/ (r.gradedAt = q.gradedAt /\ r.id <= q.id)
       IN <<m>> \o SortByGradedAtDesc(S \ {m})

\* ORDER BY due_date ASC; PostgreSQL puts NULL last
DueBefore(r, q) ==
  IF r.dueDate = Null THEN q.dueDate = Null /\ r.id <= q.id
  ELSE IF q.dueDate = Null THEN TRUE
  ELSE r.dueDate.v < q.dueDate.v \/ (r.dueDate.v = q.dueDate.v /\ r.id <= q.id)

RECURSIVE SortByDueDate(_)
SortByDueDate(S) ==
  IF S = {} THEN <<>>
  ELSE LET m == CHOOSE r \in S : \A q \in S : DueBefore(r, q)
       IN <<m>> \o SortByDueDate(S \ {m})

Limit(s, n) == SubSeq(s, 1, IF Len(s) < n THEN Len(s) ELSE n)

\* grades INNER JOIN students INNER JOIN assignments INNER JOIN classes
GradeJoinable(g) ==
  /\ \E st \in students : st.id = g.studentId
  /\ \E a \in assignments : a.id = g.assignmentId /\ \E c \in classes : c.id = a.classId

GradeView(g) ==
  [grade |-> g, student |-> StudentRow(g.studentId),
   assignment |-> AssignmentRow(g.assignmentId),
   class |-> ClassRow(AssignmentRow(g.assignmentId).classId)]

\* filters.teacherId, which the route sets for a teacher, is not read here
getGrades(filters) ==
  Map(GradeView,
      SortByGradedAtDesc({g \in grades :
        /\ GradeJoinable(g)
        /\ (filters.studentId # Undefined => g.studentId = filters.studentId)
        /\ (filters.assignmentId # 0 => g.assignmentId = filters.assignmentId)
        /\ (filters.classId # 0 => AssignmentRow(g.assignmentId).classId = filters.classId)}))

\* getRecentGrades without its ORDER BY: the first rows in primary-key order
getRecentGradesUnordered(limit, teacherId) ==
  Map(GradeView,
      Limit(SortById({g \in grades :
              /\ GradeJoinable(g)
              /\ (teacherId # Undefined =>
                    ClassRow(AssignmentRow(g.assignmentId).classId).teacherId = teacherId)}),
            limit))

\* grades joined as in getGrades, scoped by teacher, ORDER BY graded_at DESC
\* LIMIT n
getRecentGrades(limit, teacherId) ==
  Map(GradeView,
      Limit(SortByGradedAtDesc({g \in grades :
              /\ GradeJoinable(g)
              /\ (teacherId # Undefined =>
                    ClassRow(AssignmentRow(g.assignmentId).classId).teacherId = teacherId)}),
            limit))

\* classes INNER JOIN users, then per class its enrollments (joined to
\* students) and its assignments
ClassView(c) ==
  [class |-> c, teacher |-> c.teacherId,
   enrollments |-> Map(LAMBDA e : [enrollment |-> e, student |-> StudentRow(e.studentId)],
                       SortById({e \in enrollments :
                                   e.classId = c.id /\ \E st \in students : st.id = e.studentId})),
   assignments |-> SortById({a \in assignments : a.classId = c.id})]

getClasses(teacherId) ==
  Map(ClassView,
      SortById({c \in classes :
                  /\ getUser(c.teacherId) # {}
                  /\ (teacherId # Undefined => c.teacherId = teacherId)}))

\* assignments INNER JOIN classes, then per assignment its grades joined to
\* students; the second argument the route passes is not a parameter
AssignmentView(a) ==
  LET gradeData == SortById({g \in grades :
                               g.assignmentId = a.id /\ \E st \in students : st.id = g.studentId})
  IN [assignment |-> a, class |-> ClassRow(a.classId),
      grades |-> Map(LAMBDA g : [grade |-> g, student |-> StudentRow(g.studentId)], gradeData),
      submissionCount |-> Len(gradeData)]

getAssignments(classId) ==
  Map(AssignmentView,
      SortById({a \in assignments :
                  /\ \E c \in classes : c.id = a.classId
                  /\ (classId # 0 => a.classId = classId)}))

\* getUpcomingAssignments without its condition on the due date
getUpcomingAssignmentsAnyDate(limit, teacherId) ==
  Map(LAMBDA a : [assignment |-> a, class |-> ClassRow(a.classId), grades |-> <<>>,
                  submissionCount |-> Cardinality({g \in grades : g.assignmentId = a.id})],
      Limit(SortByDueDate({a \in assignments :
              /\ \E c \in classes : c.id = a.classId
              /\ (teacherId # Undefined => ClassRow(a.classId).teacherId = teacherId)}),
            limit))

\* assignments.dueDate >= now, scoped by teacher, ORDER BY due_date LIMIT n
getUpcomingAssignments(limit, teacherId) ==
  Map(LAMBDA a : [assignment |-> a, class |-> ClassRow(a.classId), grades |-> <<>>,
                  submissionCount |-> Cardinality({g \in grades : g.assignmentId = a.id})],
      Limit(SortByDueDate({a \in assignments :
              /\ \E c \in classes : c.id = a.classId
              /\ a.dueDate # Null /\ a.dueDate.v >= now
              /\ (teacherId # Undefined => ClassRow(a.classId).teacherId = teacherId)}),
            limit))

\* assignments of the classes the student is enrolled in, each with the
\* student's own grade record (the first one, or null)
getStudentAssignments(studentId) ==
  Map(LAMBDA a :
        LET own == SortById({g \in grades : g.assignmentId = a.id /\ g.studentId = studentId})
        IN [assignment |-> a, class |-> ClassRow(a.classId), grades |-> <<>>,
            submissionCount |-> 0,
            studentGrade |-> IF own = <<>> THEN Null ELSE own[1]],
      SortByDueDate({a \in assignments :
        /\ \E c \in classes : c.id = a.classId
        /\ \E e \in enrollments : e.classId = a.classId /\ e.studentId = studentId}))

getStudentEnrollments(studentId) == SortById({e \in enrollments : e.studentId = studentId})

----------------------------------------------------------------------------
(* The schema: foreign keys (ON DELETE NO ACTION) and column types.  There *)
(* is no UNIQUE constraint on grades(student_id, assignment_id) nor on     *)
(* enrollments(student_id, class_id).                                      *)

Ts(t) == [k |-> "ts", v |-> t]

UserExists(id) == \E u \in users : u.id = id
StudentExists(id) == \E st \in students : st.id = id
ClassExists(id) == \E c \in classes : c.id = id
AssignmentExists(id) == \E a \in assignments : a.id = id

\* classes.teacher_id REFERENCES users(id)
ClassInsertOk(row) == UserExists(row.teacherId)

\* enrollments.student_id REFERENCES students(id), class_id REFERENCES classes(id)
EnrollmentInsertOk(row) == StudentExists(row.studentId) /\ ClassExists(row.classId)

\* assignments.class_id REFERENCES classes(id)
AssignmentInsertOk(row) == ClassExists(row.classId)

\* The grades table with UNIQUE (student_id, assignment_id) added
GradeWriteOkUniquePair(row) ==
  /\ StudentExists(row.studentId)
  /\ AssignmentExists(row.assignmentId)
  /\ row.percentage # Failed
  /\ \A g \in grades : (g.studentId = row.studentId /\ g.assignmentId = row.assignmentId)
                          => g.id = row.id

\* grades.student_id REFERENCES students(id), assignment_id REFERENCES
\* assignments(id); percentage must be a value the decimal(5,2) column takes
GradeWriteOk(row) ==
  /\ StudentExists(row.studentId)
  /\ AssignmentExists(row.assignmentId)
  /\ row.percentage # Failed

\* A payload value as the column stores it: an absent field is NULL
Stored(x) == IF x = Absent THEN Null ELSE x

----------------------------------------------------------------------------
(* DatabaseStorage: writes, and the routes that call them.  Each action is *)
(* one request handled from start to finish; response is what it answers.  *)
(* A handler starts once the previous answer has been sent (Send).         *)

Idle == [op |-> "idle"]

\* A request slot with no request in it
NoRequest == [pc |-> "none"]

\* isAuthenticated: the caller is a user, and no other request is being
\* handled
Authenticated(caller) == response = Idle /\ \E u \in users : u.id = caller

\* res.json(...) / res.status(...).send(): the answer leaves the server
Send ==
  /\ response # Idle
  /\ response' = Idle
  /\ UNCHANGED <<users, students, classes, enrollments, assignments, grades, now, requests>>

\* POST /api/classes -> storage.createClass
CreateClass(caller, bodyTeacherId) ==
  LET teacherId == IF RoleOf(caller) = "admin" THEN bodyTeacherId ELSE caller
      row == [id |-> UnusedId(classes, ClassIds), teacherId |-> teacherId]
  IN /\ Authenticated(caller)
     /\ HasUnusedId(classes, ClassIds)
     /\ IF ClassInsertOk(row)
        THEN /\ classes' = classes \cup {row}
             /\ response' = [op |-> "createClass", caller |-> caller, status |-> 201, id |-> row.id]
        ELSE /\ classes' = classes
             /\ response' = [op |-> "createClass", caller |-> caller, status |-> 500, id |-> 0]
     /\ UNCHANGED <<users, students, enrollments, assignments, grades, now, requests>>

\* storage.enrollStudent: a plain insert
enrollStudent(studentId, classId) ==
  enrollments \cup {[id |-> UnusedId(enrollments, EnrollmentIds),
                     studentId |-> studentId, classId |-> classId]}

\* The route without its existence check (as in the earlier routes.ts)
NeverEnrolled(studentId, classId) == FALSE

\* The route's check: existingEnrollment.some(e => e.classId === classId)
AlreadyEnrolled(studentId, classId) ==
  \E i \in 1..Len(getStudentEnrollments(studentId)) :
     getStudentEnrollments(studentId)[i].classId = classId

\* POST /api/enrollments
PostEnrollment(caller, studentId, classId) ==
  /\ Authenticated(caller)
  /\ AlreadyEnrolled(studentId, classId) \/ HasUnusedId(enrollments, EnrollmentIds)
  /\ IF AlreadyEnrolled(studentId, classId)
     THEN /\ enrollments' = enrollments
          /\ response' = [op |-> "enroll", caller |-> caller, status |-> 400,
                          studentId |-> studentId, classId |-> classId]
     ELSE IF EnrollmentInsertOk([studentId |-> studentId, classId |-> classId])
     THEN /\ enrollments' = enrollStudent(studentId, classId)
          /\ response' = [op |-> "enroll", caller |-> caller, status |-> 201,
                          studentId |-> studentId, classId |-> classId]
     ELSE /\ enrollments' = enrollments
          /\ response' = [op |-> "enroll", caller |-> caller, status |-> 500,
                          studentId |-> studentId, classId |-> classId]
  /\ UNCHANGED <<users, students, classes, assignments, grades, now, requests>>

\* POST /api/assignments -> storage.createAssignment
CreateAssignment(caller, classId, totalPoints, dueDate) ==
  LET row == [id |-> UnusedId(assignments, AssignmentIds), classId |-> classId,
              totalPoints |-> totalPoints, dueDate |-> dueDate]
  IN /\ Authenticated(caller)
     /\ HasUnusedId(assignments, AssignmentIds)
     /\ IF AssignmentInsertOk(row)
        THEN /\ assignments' = assignments \cup {row}
             /\ response' = [op |-> "createAssignment", caller |-> caller, status |-> 201, id |-> row.id]
        ELSE /\ assignments' = assignments
             /\ response' = [op |-> "createAssignment", caller |-> caller, status |-> 500, id |-> 0]
     /\ UNCHANGED <<users, students, classes, enrollments, grades, now, requests>>

\* createGrade without its existence check (as in the earlier storage.ts)
NoExistingGrade(studentId, assignmentId) == {}

\* createGrade step 1: a grade already stored for this student and assignment
ExistingGrade(studentId, assignmentId) ==
  {g \in grades : g.studentId = studentId /\ g.assignmentId = assignmentId}

\* createGrade with the percentage clamped to 100
ComputedGradeClamped(grade) ==
  IF AssignmentExists(grade.assignmentId) /\ grade.pointsEarned # Null
  THEN LET raw == PercentOf(Number(grade.pointsEarned),
                            Number(Dec(AssignmentRow(grade.assignmentId).totalPoints)))
           percentage == IF raw.k = "rat" /\ raw.n > 100 * raw.d THEN Rat(100, 1) ELSE raw
       IN [grade EXCEPT !.percentage = ToDecimal(percentage),
                        !.letterGrade = getLetterGrade(percentage)]
  ELSE grade

\* createGrade step 2: the payload with percentage and letterGrade computed
\* when the assignment is found and pointsEarned is not null
ComputedGrade(grade) ==
  IF AssignmentExists(grade.assignmentId) /\ grade.pointsEarned # Null
  THEN LET percentage == PercentOf(Number(grade.pointsEarned),
                                   Number(Dec(AssignmentRow(grade.assignmentId).totalPoints)))
       IN [grade EXCEPT !.percentage = ToDecimal(percentage),
                        !.letterGrade = getLetterGrade(percentage)]
  ELSE grade

\* createGrade step 3: the row the insert writes
GradeRow(id, grade) ==
  [id |-> id, studentId |-> grade.studentId, assignmentId |-> grade.assignmentId,
   pointsEarned |-> Stored(grade.pointsEarned), percentage |-> Stored(grade.percentage),
   letterGrade |-> grade.letterGrade, gradedAt |-> now]

\* The payload insertGradeSchema parses from a body carrying these fields
GradePayload(studentId, assignmentId, pointsEarned) ==
  [studentId |-> studentId, assignmentId |-> assignmentId, pointsEarned |-> pointsEarned,
   percentage |-> Absent, letterGrade |-> NoLetter]

\* POST /api/grades -> storage.createGrade
CreateGrade(caller, studentId, assignmentId, pointsEarned) ==
  LET grade == GradePayload(studentId, assignmentId, pointsEarned)
      row == GradeRow(UnusedId(grades, GradeIds), ComputedGrade(grade))
      answer == [op |-> "createGrade", caller |-> caller, req |-> grade]
  IN /\ Authenticated(caller)
     /\ ExistingGrade(studentId, assignmentId) # {} \/ HasUnusedId(grades, GradeIds)
     /\ IF ExistingGrade(studentId, assignmentId) # {}
        THEN /\ grades' = grades
             /\ response' = answer @@ [status |-> 500, id |-> 0, error |-> "exists"]
        ELSE IF GradeWriteOk(row)
        THEN /\ grades' = grades \cup {row}
             /\ response' = answer @@ [status |-> 201, id |-> row.id, error |-> ""]
        ELSE /\ grades' = grades
             /\ response' = answer @@ [status |-> 500, id |-> 0, error |-> "database"]
     /\ UNCHANGED <<users, students, classes, enrollments, assignments, now, requests>>

\* updateGrade recomputing from the assignment the payload names
RecomputedGradeFromPayload(id, grade) ==
  IF grade.pointsEarned # Absent /\ (\E g \in grades : g.id = id)
  THEN LET existingGrade == CHOOSE g \in grades : g.id = id
           linked == IF grade.assignmentId = 0 THEN existingGrade.assignmentId
                     ELSE grade.assignmentId
       IN IF AssignmentExists(linked)
          THEN LET percentage ==
                     PercentOf(Number(grade.pointsEarned),
                               Number(Dec(AssignmentRow(linked).totalPoints)))
               IN [grade EXCEPT !.percentage = ToDecimal(percentage),
                                !.letterGrade = getLetterGrade(percentage)]
          ELSE grade
  ELSE grade

\* updateGrade, the recomputation: when the payload carries pointsEarned, the
\* grade row exists and the assignment it is linked to is found
RecomputedGrade(id, grade) ==
  IF grade.pointsEarned # Absent /\ (\E g \in grades : g.id = id)
  THEN LET existingGrade == CHOOSE g \in grades : g.id = id
       IN IF AssignmentExists(existingGrade.assignmentId)
          THEN LET percentage ==
                     PercentOf(Number(grade.pointsEarned),
                               Number(Dec(AssignmentRow(existingGrade.assignmentId).totalPoints)))
               IN [grade EXCEPT !.percentage = ToDecimal(percentage),
                                !.letterGrade = getLetterGrade(percentage)]
          ELSE grade
  ELSE grade

\* db.update(grades).set({ ...grade }): the fields the payload carries
\* replace the row's, the others stay
UpdatedRow(g, grade) ==
  [g EXCEPT !.assignmentId = IF grade.assignmentId = 0 THEN @ ELSE grade.assignmentId,
            !.pointsEarned = IF grade.pointsEarned = Absent THEN @ ELSE grade.pointsEarned,
            !.percentage = IF grade.percentage = Absent THEN @ ELSE grade.percentage,
            !.letterGrade = IF grade.letterGrade = NoLetter THEN @ ELSE grade.letterGrade]

\* PUT /api/grades/:id -> storage.updateGrade, with a payload that carries
\* pointsEarned and assignmentId, each possibly absent
UpdateGrade(caller, id, pointsEarned, assignmentId) ==
  LET grade == [assignmentId |-> assignmentId, pointsEarned |-> pointsEarned,
                percentage |-> Absent, letterGrade |-> NoLetter]
      set == RecomputedGrade(id, grade)
      answer == [op |-> "updateGrade", caller |-> caller, id |-> id, req |-> grade]
  IN /\ Authenticated(caller)
     /\ IF \A g \in grades : g.id = id => GradeWriteOk(UpdatedRow(g, set))
        THEN /\ grades' = {IF g.id = id THEN UpdatedRow(g, set) ELSE g : g \in grades}
             /\ response' = answer @@ [status |-> 200]
        ELSE /\ grades' = grades
             /\ response' = answer @@ [status |-> 500]
     /\ UNCHANGED <<users, students, classes, enrollments, assignments, now, requests>>

\* DELETE /api/grades/:id -> storage.deleteGrade
DeleteGrade(caller, id) ==
  /\ Authenticated(caller)
  /\ grades' = {g \in grades : g.id # id}
  /\ response' = [op |-> "deleteGrade", caller |-> caller, id |-> id, status |-> 204]
  /\ UNCHANGED <<users, students, classes, enrollments, assignments, now, requests>>

----------------------------------------------------------------------------
(* The read routes: how each derives the scope it passes to the storage    *)
(* layer from the caller's role.                                           *)

\* user?.role === 'admin' ? undefined : userId
ScopeOf(caller) == IF RoleOf(caller) = "admin" THEN Undefined ELSE caller

Answer(op, caller, body) ==
  /\ Authenticated(caller)
  /\ response' = [op |-> op, caller |-> caller, status |-> 200, body |-> body]
  /\ UNCHANGED <<users, students, classes, enrollments, assignments, grades, now, requests>>

\* The answer of a route that reads ?limit=, kept with the limit it was asked
AnswerLimited(op, caller, limit, body) ==
  /\ Authenticated(caller)
  /\ response' = [op |-> op, caller |-> caller, status |-> 200, limit |-> limit, body |-> body]
  /\ UNCHANGED <<users, students, classes, enrollments, assignments, grades, now, requests>>

\* GET /api/students
GetStudents(caller) ==
  Answer("getStudents", caller,
         IF RoleOf(caller) = "admin" THEN getStudents(Undefined) ELSE getStudents(caller))

\* GET /api/classes
GetClasses(caller) == Answer("getClasses", caller, getClasses(ScopeOf(caller)))

\* GET /api/assignments?classId=
GetAssignments(caller, classId) == Answer("getAssignments", caller, getAssignments(classId))

\* GET /api/grades?studentId=&assignmentId=&classId=
GetGrades(caller, studentId, assignmentId, classId) ==
  Answer("getGrades", caller,
         getGrades([studentId |-> studentId, assignmentId |-> assignmentId, classId |-> classId,
                    teacherId |-> IF RoleOf(caller) = "teacher" THEN caller ELSE Undefined]))

\* GET /api/dashboard/recent-grades?limit=
GetRecentGrades(caller, limit) ==
  AnswerLimited("getRecentGrades", caller, limit, getRecentGrades(limit, ScopeOf(caller)))

\* GET /api/dashboard/upcoming-assignments?limit=
GetUpcomingAssignments(caller, limit) ==
  AnswerLimited("getUpcomingAssignments", caller, limit,
                getUpcomingAssignments(limit, ScopeOf(caller)))

\* GET /api/dashboard/student/grades
GetStudentGrades(caller) ==
  Answer("getStudentGrades", caller,
         getGrades([studentId |-> caller, assignmentId |-> 0, classId |-> 0,
                    teacherId |-> Undefined]))

\* GET /api/student/assignments
GetStudentAssignments(caller) ==
  Answer("getStudentAssignments", caller, getStudentAssignments(caller))

\* GET /api/students/:id/enrollments
GetStudentEnrollments(caller, id) ==
  Answer("getStudentEnrollments", caller, getStudentEnrollments(id))

----------------------------------------------------------------------------
(* Spec: the API with every request handled one at a time.  The accounts   *)
(* (two teachers, an admin, two students) exist; the other tables start    *)
(* empty.  Points are fixed here, ownership and enrollment vary.           *)

SeedUsers ==
  {[id |-> t, role |-> "teacher"] : t \in Teachers}
    \cup {[id |-> a, role |-> "admin"] : a \in Admins}
    \cup {[id |-> st, role |-> "student"] : st \in StudentUsers}

Init ==
  /\ users = SeedUsers
  /\ students = {[id |-> st] : st \in StudentUsers}
  /\ classes = {}
  /\ enrollments = {}
  /\ assignments = {}
  /\ grades = {}
  /\ now = 1
  /\ response = Idle
  /\ requests = [i \in RequestIds |-> NoRequest]

Limits == {1, 10}

Writes ==
  \/ \E caller \in Teachers \cup Admins, t \in Teachers : CreateClass(caller, t)
  \/ \E st \in StudentUsers, c \in ClassIds : PostEnrollment("ad", st, c)
  \/ \E c \in ClassIds : CreateAssignment("ad", c, 5000, Ts(2))
  \/ \E st \in StudentUsers, a \in AssignmentIds : CreateGrade("ad", st, a, Dec(4500))

Reads ==
  \/ \E caller \in UserIds : GetStudents(caller)
  \/ \E caller \in UserIds : GetClasses(caller)
  \/ \E caller \in UserIds, c \in {0} \cup ClassIds : GetAssignments(caller, c)
  \/ \E caller \in UserIds, st \in {Undefined} \cup StudentUsers :
        GetGrades(caller, st, 0, 0)
  \/ \E caller \in UserIds, n \in Limits : GetRecentGrades(caller, n)
  \/ \E caller \in UserIds, n \in Limits : GetUpcomingAssignments(caller, n)
  \/ \E caller \in UserIds : GetStudentGrades(caller)
  \/ \E caller \in UserIds : GetStudentAssignments(caller)
  \/ \E caller \in UserIds, st \in StudentUsers : GetStudentEnrollments(caller, st)

Next == Writes \/ Reads \/ Send

Spec == Init /\ [][Next]_vars

----------------------------------------------------------------------------
(* What an answer shows: the rows of each table found in a response body,  *)
(* at top level or nested in a view object.                                *)

Union(f(_), s) == UNION {f(s[i]) : i \in 1..Len(s)}

ShownGrades(r) ==
  CASE r.op = "getStudents" -> Union(LAMBDA v : {x.grade : x \in Range(v.grades)}, r.body)
    [] r.op = "getAssignments" -> Union(LAMBDA v : {x.grade : x \in Range(v.grades)}, r.body)
    [] r.op \in {"getGrades", "getRecentGrades", "getStudentGrades"} ->
         {v.grade : v \in Range(r.body)}
    [] r.op = "getStudentAssignments" ->
         {v.studentGrade : v \in {w \in Range(r.body) : w.studentGrade # Null}}
    [] OTHER -> {}

ShownAssignments(r) ==
  CASE r.op = "getStudents" -> Union(LAMBDA v : {x.assignment : x \in Range(v.grades)}, r.body)
    [] r.op = "getClasses" -> Union(LAMBDA v : Range(v.assignments), r.body)
    [] r.op \in {"getAssignments", "getGrades", "getRecentGrades", "getStudentGrades",
                 "getUpcomingAssignments", "getStudentAssignments"} ->
         {v.assignment : v \in Range(r.body)}
    [] OTHER -> {}

ShownClasses(r) ==
  CASE r.op = "getStudents" -> Union(LAMBDA v : {x.class : x \in Range(v.enrollments)}, r.body)
    [] r.op \in {"getClasses", "getAssignments", "getGrades", "getRecentGrades",
                 "getStudentGrades", "getUpcomingAssignments", "getStudentAssignments"} ->
         {v.class : v \in Range(r.body)}
    [] OTHER -> {}

ShownStudentIds(r) ==
  CASE r.op = "getStudents" -> {v.id : v \in Range(r.body)}
    [] r.op = "getClasses" -> Union(LAMBDA v : {x.student.id : x \in Range(v.enrollments)}, r.body)
    [] r.op = "getAssignments" -> Union(LAMBDA v : {x.student.id : x \in Range(v.grades)}, r.body)
    [] r.op \in {"getGrades", "getRecentGrades", "getStudentGrades"} ->
         {v.student.id : v \in Range(r.body)}
    [] OTHER -> {}

\* The scope of a teacher: the classes the teacher owns, their assignments,
\* the grades on those, and the students enrolled in or graded in them
OwnsClass(t, classId) == \E c \in classes : c.id = classId /\ c.teacherId = t

OwnsAssignment(t, assignmentId) ==
  \E a \in assignments : a.id = assignmentId /\ OwnsClass(t, a.classId)

EnrolledWith(t) == {e.studentId : e \in {x \in enrollments : OwnsClass(t, x.classId)}}

GradedBy(t) == {g.studentId : g \in {x \in grades : OwnsAssignment(t, x.assignmentId)}}

TeacherListOps ==
  {"getStudents", "getClasses", "getRecentGrades", "getUpcomingAssignments",
   "getGrades", "getAssignments"}

StudentReadOps == {"getGrades", "getStudentGrades", "getStudentAssignments"}

IsAnswerTo(ops, role) ==
  response # Idle /\ response.op \in ops /\ RoleOf(response.caller) = role

----------------------------------------------------------------------------
(* Claims *)

\* C1: whatever a list operation answers to a teacher T (students, classes,
\* assignments, grades, at top level or nested) lies inside the classes T owns.
\* The code breaks it: getGrades never reads filters.teacherId, getAssignments
\* has no teacher parameter, and getStudents nests every grade of a student.
C1_TeacherSeesOnlyOwnScope ==
  IsAnswerTo(TeacherListOps, "teacher") =>
    LET t == response.caller
    IN /\ \A g \in ShownGrades(response) : OwnsAssignment(t, g.assignmentId)
       /\ \A a \in ShownAssignments(response) : OwnsClass(t, a.classId)
       /\ \A c \in ShownClasses(response) : c.teacherId = t
       /\ ShownStudentIds(response) \subseteq EnrolledWith(t) \cup GradedBy(t)

\* C2: every grade a student caller is shown, by GET /api/grades with any
\* studentId, by GET /api/dashboard/student/grades or by
\* GET /api/student/assignments, is a grade of that student.
\* The code breaks it: GET /api/grades passes the query's studentId through.
C2_StudentSeesOnlyOwnGrades ==
  IsAnswerTo(StudentReadOps, "student") =>
    \A g \in ShownGrades(response) : g.studentId = response.caller

\* C3: GET /api/students answered to a teacher A (getStudents(teacherId = A))
\* lists exactly the students that have an enrollment in a class A owns.
C3_GetStudentsExactlyEnrolledWithTeacher ==
  (response # Idle /\ response.op = "getStudents" /\ RoleOf(response.caller) # "admin") =>
     /\ {v.id : v \in Range(response.body)} = EnrolledWith(response.caller)
     /\ \A i, j \in 1..Len(response.body) :
          response.body[i].id = response.body[j].id => i = j

\* C3 witness: A and B each own a class with one enrolled student, and A is
\* answered A's student alone
C3_Witness ==
  /\ response # Idle /\ response.op = "getStudents" /\ response.caller = "t1"
  /\ EnrolledWith("t1") = {"s1"}
  /\ EnrolledWith("t2") = {"s2"}
  /\ {v.id : v \in Range(response.body)} = {"s1"}

\* C6: POST /api/enrollments for a (student, class) pair that is already
\* enrolled is rejected (400) and inserts nothing, and the student's
\* enrollments then hold exactly one entry for that class.
C6_SecondEnrollmentRejected ==
  [][(response'.op = "enroll"
       /\ \E e \in enrollments : e.studentId = response'.studentId
                                  /\ e.classId = response'.classId) =>
       /\ response'.status = 400
       /\ enrollments' = enrollments
       /\ Cardinality({e \in enrollments' : e.studentId = response'.studentId
                                           /\ e.classId = response'.classId}) = 1]_vars

\* C6 witness: a second enrollment of the same pair has been rejected
C6_Witness ==
  /\ response # Idle /\ response.op = "enroll" /\ response.status = 400
  /\ Cardinality({e \in enrollments : e.studentId = response.studentId
                                     /\ e.classId = response.classId}) = 1

----------------------------------------------------------------------------
(* SpecGrade: grade computation.  One class exists; assignments are        *)
(* created with different total points, grades are created, updated        *)
(* (points and/or the linked assignment) and deleted.                      *)

InitGrade ==
  /\ users = SeedUsers
  /\ students = {[id |-> st] : st \in StudentUsers}
  /\ classes = {[id |-> 1, teacherId |-> "t1"]}
  /\ enrollments = {}
  /\ assignments = {}
  /\ grades = {}
  /\ now = 1
  /\ response = Idle
  /\ requests = [i \in RequestIds |-> NoRequest]

\* Total points, in hundredths: 0, 3 and 50
TotalPointsInputs == {0, 300, 5000}

\* Points earned, in hundredths: 0, 1, 45, 48.5 and 60
PointsInputs == {Dec(0), Dec(100), Dec(4500), Dec(4850), Dec(6000)}

NextGrade ==
  \/ \E tp \in TotalPointsInputs : CreateAssignment("t1", 1, tp, Ts(2))
  \/ \E a \in AssignmentIds, pe \in PointsInputs : CreateGrade("t1", "s1", a, pe)
  \/ \E id \in GradeIds, pe \in PointsInputs \cup {Absent, Null}, a \in {0} \cup AssignmentIds :
        UpdateGrade("t1", id, pe, a)
  \/ \E id \in GradeIds : DeleteGrade("t1", id)
  \/ Send

SpecGrade == InitGrade /\ [][NextGrade]_vars

----------------------------------------------------------------------------
(* Claims about grade creation and update *)

GradeById(gs, id) == CHOOSE g \in gs : g.id = id

SamePair(g, studentId, assignmentId) ==
  g.studentId = studentId /\ g.assignmentId = assignmentId

UniquePairs(gs) ==
  \A g, h \in gs : SamePair(g, h.studentId, h.assignmentId) => g.id = h.id

TotalPointsOf(assignmentId) == (CHOOSE a \in assignments : a.id = assignmentId).totalPoints

\* r (hundredths of a percent) is pointsEarned / totalPoints * 100 rounded to
\* two decimal places, half up; pe and tp in hundredths of a point, tp > 0
IsRounded(r, pe, tp) ==
  /\ 2 * (r * tp - 10000 * pe) <= tp
  /\ 2 * (r * tp - 10000 * pe) > 0 - tp

\* The rounded value is one the decimal(5,2) column holds
Fits(pe, tp) == 2 * 10000 * pe + tp < 2 * tp * (DecimalMax + 1)

\* A createGrade request that passed the existence check, with a numeric
\* pointsEarned, for an existing student and an assignment with totalPoints > 0
IsComputedCreate(r) ==
  /\ r # Idle /\ r.op = "createGrade" /\ r.error # "exists"
  /\ r.req.pointsEarned.k = "dec"
  /\ \E st \in students : st.id = r.req.studentId
  /\ \E a \in assignments : a.id = r.req.assignmentId /\ a.totalPoints > 0

\* C4: createGrade for a (student, assignment) pair that already has a grade
\* fails and leaves the stored grades unchanged, and a createGrade call never
\* takes the table from one grade per pair to more than one.
C4_DuplicateGradeRejected ==
  [][response'.op = "createGrade" =>
       /\ (\E g \in grades : SamePair(g, response'.req.studentId, response'.req.assignmentId))
            => (response'.status = 500 /\ grades' = grades)
       /\ UniquePairs(grades) => UniquePairs(grades')]_vars

\* C4 witness: a createGrade for an occupied pair has been refused
C4_Witness ==
  /\ response # Idle /\ response.op = "createGrade" /\ response.error = "exists"
  /\ Cardinality({g \in grades :
        SamePair(g, response.req.studentId, response.req.assignmentId)}) = 1

\* C8 as stated: the stored percentage is exactly pointsEarned / totalPoints
\* * 100 and the letter is getLetterGrade of it, whatever the points.
\* The code breaks it: the percentage column is decimal(5,2), so 1 of 3
\* points is stored as 33.33, and 60 of 3 points (2000%) is rejected.
C8_StoresExactQuotient ==
  IsComputedCreate(response) =>
    LET pe == response.req.pointsEarned.v
        tp == TotalPointsOf(response.req.assignmentId)
    IN /\ response.status = 201
       /\ \E g \in grades :
            /\ g.id = response.id
            /\ g.percentage.k = "dec" /\ g.percentage.v * tp = 10000 * pe
            /\ g.letterGrade = getLetterGrade(Rat(100 * pe, tp))

\* C8 amended: createGrade computes percentage = pointsEarned / totalPoints *
\* 100 without clamping and letterGrade = getLetterGrade(percentage); it
\* stores the percentage rounded to two decimal places with that letter, so
\* more points than the total give a stored percentage above 100 and A+; a
\* percentage that rounds to more than 999.99 is rejected, nothing is stored.
C8_StoresRoundedQuotientUnclamped ==
  IsComputedCreate(response) =>
    LET pe == response.req.pointsEarned.v
        tp == TotalPointsOf(response.req.assignmentId)
    IN IF Fits(pe, tp)
       THEN /\ response.status = 201
            /\ \E g \in grades :
                 /\ g.id = response.id
                 /\ g.pointsEarned = Dec(pe)
                 /\ g.percentage.k = "dec" /\ IsRounded(g.percentage.v, pe, tp)
                 /\ g.letterGrade = getLetterGrade(Rat(100 * pe, tp))
                 /\ pe > tp => (g.percentage.v > 10000 /\ g.letterGrade = "A+")
       ELSE /\ response.status = 500
            /\ ~ \E g \in grades :
                   SamePair(g, response.req.studentId, response.req.assignmentId)

\* C8 witness: 60 of 50 points stored as 120.00 and A+
C8_Witness ==
  /\ IsComputedCreate(response) /\ response.status = 201
  /\ response.req.pointsEarned = Dec(6000)
  /\ TotalPointsOf(response.req.assignmentId) = 5000
  /\ \E g \in grades : g.id = response.id /\ g.percentage = Dec(12000) /\ g.letterGrade = "A+"

\* C9: updateGrade with pointsEarned in its payload recomputes percentage and
\* letterGrade from the new points and the total points of the assignment the
\* stored grade was linked to before the update, also when the payload names
\* another assignment (45 of 50 is 90 / A-, updated to 48.5 it is 97 / A+).
C9_UpdateRecomputesFromLinkedAssignment ==
  [][\A g \in grades :
       ( /\ response'.op = "updateGrade" /\ response'.id = g.id
         /\ response'.req.pointsEarned.k \in {"dec", "null"}
         /\ TotalPointsOf(g.assignmentId) > 0
         /\ response'.req.assignmentId = 0
              \/ \E a \in assignments : a.id = response'.req.assignmentId ) =>
       LET pe == IF response'.req.pointsEarned.k = "dec"
                 THEN response'.req.pointsEarned.v ELSE 0
           tp == TotalPointsOf(g.assignmentId)
           after == GradeById(grades', g.id)
       IN IF Fits(pe, tp)
          THEN /\ response'.status = 200
               /\ after.pointsEarned = response'.req.pointsEarned
               /\ after.percentage.k = "dec" /\ IsRounded(after.percentage.v, pe, tp)
               /\ after.letterGrade = getLetterGrade(Rat(100 * pe, tp))
          ELSE response'.status = 500 /\ grades' = grades]_vars

\* C9 witness: a grade on a 50-point assignment updated to 48.5 points is
\* stored as 97.00 / A+
C9_Witness ==
  /\ response # Idle /\ response.op = "updateGrade" /\ response.status = 200
  /\ response.req.pointsEarned = Dec(4850)
  /\ \E g \in grades :
       /\ g.id = response.id /\ TotalPointsOf(g.assignmentId) = 5000
       /\ g.pointsEarned = Dec(4850) /\ g.percentage = Dec(9700) /\ g.letterGrade = "A+"

\* C10: when the assignment has totalPoints = 0, createGrade stores the grade
\* with percentage and letterGrade unset, and updateGrade leaves the stored
\* percentage and letterGrade as they were.
\* The code breaks it: it divides by zero; 0 of 0 points is stored as NaN / F,
\* and any other points give Infinity, which the insert rejects.
C10_ZeroTotalPointsSkipsComputation ==
  [][/\ ( /\ response'.op = "createGrade" /\ response'.error # "exists"
          /\ response'.req.pointsEarned.k = "dec"
          /\ \E a \in assignments : a.id = response'.req.assignmentId /\ a.totalPoints = 0 ) =>
        /\ response'.status = 201
        /\ \E g \in grades' : /\ g.id = response'.id
                              /\ g.percentage = Null /\ g.letterGrade = NoLetter
     /\ \A g \in grades :
          ( /\ response'.op = "updateGrade" /\ response'.id = g.id
            /\ response'.req.pointsEarned.k = "dec" /\ response'.req.assignmentId = 0
            /\ TotalPointsOf(g.assignmentId) = 0 ) =>
          /\ response'.status = 200
          /\ GradeById(grades', g.id).percentage = g.percentage
          /\ GradeById(grades', g.id).letterGrade = g.letterGrade]_vars

----------------------------------------------------------------------------
(* SpecRace: createGrade requests in flight together.  createGrade awaits  *)
(* three queries, and another request's queries may run between any two of *)
(* them: the existence check, the assignment lookup, the insert.           *)

\* POST /api/grades arrives
CreateGradeBegin(i, studentId, assignmentId, pointsEarned) ==
  /\ requests[i] = NoRequest
  /\ requests' = [requests EXCEPT ![i] =
        [pc |-> "check", grade |-> GradePayload(studentId, assignmentId, pointsEarned)]]
  /\ UNCHANGED <<users, students, classes, enrollments, assignments, grades, now, response>>

\* await db.select().from(grades).where(...): throws when a grade exists
CreateGradeCheck(i) ==
  /\ requests[i].pc = "check"
  /\ requests' = [requests EXCEPT ![i] =
        IF ExistingGrade(requests[i].grade.studentId, requests[i].grade.assignmentId) # {}
        THEN [pc |-> "done", grade |-> requests[i].grade, passed |-> FALSE, status |-> 500]
        ELSE [pc |-> "lookup", grade |-> requests[i].grade]]
  /\ UNCHANGED <<users, students, classes, enrollments, assignments, grades, now, response>>

\* await db.select().from(assignments)...: percentage and letter computed
CreateGradeLookup(i) ==
  /\ requests[i].pc = "lookup"
  /\ requests' = [requests EXCEPT ![i] =
        [pc |-> "insert", grade |-> ComputedGrade(requests[i].grade)]]
  /\ UNCHANGED <<users, students, classes, enrollments, assignments, grades, now, response>>

\* await db.insert(grades).values(grade).returning()
CreateGradeInsert(i) ==
  LET row == GradeRow(UnusedId(grades, GradeIds), requests[i].grade)
  IN /\ requests[i].pc = "insert"
     /\ HasUnusedId(grades, GradeIds)
     /\ IF GradeWriteOk(row)
        THEN /\ grades' = grades \cup {row}
             /\ requests' = [requests EXCEPT ![i] =
                   [pc |-> "done", grade |-> requests[i].grade, passed |-> TRUE, status |-> 201]]
        ELSE /\ grades' = grades
             /\ requests' = [requests EXCEPT ![i] =
                   [pc |-> "done", grade |-> requests[i].grade, passed |-> TRUE, status |-> 500]]
     /\ UNCHANGED <<users, students, classes, enrollments, assignments, now, response>>

InitRace ==
  /\ users = SeedUsers
  /\ students = {[id |-> st] : st \in StudentUsers}
  /\ classes = {[id |-> 1, teacherId |-> "t1"]}
  /\ enrollments = {}
  /\ assignments = {[id |-> 1, classId |-> 1, totalPoints |-> 5000, dueDate |-> Ts(2)]}
  /\ grades = {}
  /\ now = 1
  /\ response = Idle
  /\ requests = [i \in RequestIds |-> NoRequest]

NextRace ==
  \/ \E i \in RequestIds, st \in StudentUsers, pe \in {Dec(4500), Dec(4850)} :
        CreateGradeBegin(i, st, 1, pe)
  \/ \E i \in RequestIds : CreateGradeCheck(i)
  \/ \E i \in RequestIds : CreateGradeLookup(i)
  \/ \E i \in RequestIds : CreateGradeInsert(i)

SpecRace == InitRace /\ [][NextRace]_vars

RacedPair(i, j) ==
  /\ i # j
  /\ requests[i].pc = "done" /\ requests[j].pc = "done"
  /\ requests[i].passed /\ requests[j].passed
  /\ requests[i].grade.studentId = requests[j].grade.studentId
  /\ requests[i].grade.assignmentId = requests[j].grade.assignmentId

\* C5: two createGrade requests for the same (student, assignment) pair that
\* both ran the existence check before either inserted both insert: each is
\* answered 201 and the table holds two grades for the pair.
C5_RaceStoresTwoGrades ==
  \A i, j \in RequestIds :
    RacedPair(i, j) =>
      /\ requests[i].status = 201 /\ requests[j].status = 201
      /\ Cardinality({g \in grades : SamePair(g, requests[i].grade.studentId,
                                              requests[i].grade.assignmentId)}) >= 2

\* C5 witness: both raced requests are done and the pair has two grades
C5_Witness ==
  \E i, j \in RequestIds :
    /\ RacedPair(i, j)
    /\ Cardinality({g \in grades : SamePair(g, requests[i].grade.studentId,
                                            requests[i].grade.assignmentId)}) = 2

----------------------------------------------------------------------------
(* SpecLetter: getLetterGrade applied to percentages from BelowZero under  *)
(* 0 to AboveHundred over 100: every tenth of a percent, and the value one *)
(* thousandth under every whole percent.                                   *)

PercentageInputs ==
  {Rat(n, 10) : n \in (0 - 10 * BelowZero)..(10 * (100 + AboveHundred))}
    \cup {Rat(1000 * t - 1, 1000) : t \in (0 - BelowZero)..(100 + AboveHundred)}

InitLetter ==
  /\ users = SeedUsers
  /\ students = {[id |-> st] : st \in StudentUsers}
  /\ classes = {}
  /\ enrollments = {}
  /\ assignments = {}
  /\ grades = {}
  /\ now = 1
  /\ response \in {[op |-> "percentage", percentage |-> x] : x \in PercentageInputs}
  /\ requests = [i \in RequestIds |-> NoRequest]

ApplyLetterGrade ==
  /\ response.op = "percentage"
  /\ response' = [op |-> "getLetterGrade", percentage |-> response.percentage,
                  letterGrade |-> getLetterGrade(response.percentage)]
  /\ UNCHANGED <<tables, now, requests>>

SpecLetter == InitLetter /\ [][ApplyLetterGrade]_vars

\* The threshold table of the grade scale, highest first
LetterTable ==
  << <<97, "A+">>, <<93, "A">>, <<90, "A-">>, <<87, "B+">>, <<83, "B">>, <<80, "B-">>,
     <<77, "C+">>, <<73, "C">>, <<70, "C-">>, <<67, "D+">>, <<63, "D">>, <<60, "D-">> >>

\* The letter of the first row of the table the percentage reaches, else F
TableLetter(x) ==
  LET reached == {i \in 1..Len(LetterTable) : x.n >= LetterTable[i][1] * x.d}
  IN IF reached = {} THEN "F"
     ELSE LetterTable[CHOOSE i \in reached : \A j \in reached : i <= j][2]

\* C7: getLetterGrade maps a percentage to the first row of the threshold
\* table it reaches (else F): a threshold itself gets the higher letter, a
\* value just under it the next lower one, also below 0 and above 100.
C7_LetterGradeMatchesTable ==
  response.op = "getLetterGrade" =>
    /\ response.letterGrade = TableLetter(response.percentage)
    /\ \A i \in 1..Len(LetterTable) :
         /\ response.percentage = Rat(LetterTable[i][1], 1)
              => response.letterGrade = LetterTable[i][2]
         /\ response.percentage = Rat(1000 * LetterTable[i][1] - 1, 1000)
              => response.letterGrade = (IF i = Len(LetterTable) THEN "F"
                                         ELSE LetterTable[i + 1][2])

\* C7 witness: 96.999 has been mapped to A (97 is A+)
C7_Witness ==
  /\ response.op = "getLetterGrade"
  /\ response.percentage = Rat(96999, 1000)
  /\ response.letterGrade = "A"

----------------------------------------------------------------------------
(* SpecIntegrity: creates, updates and deletes of every table, with ids    *)
(* that exist and ids that do not.  A DELETE or UPDATE statement that      *)
(* would break a foreign key is rejected by the database and changes       *)
(* nothing; a handler that issues several statements stops at the first    *)
(* rejected one.                                                           *)

\* users(id) is referenced by classes.teacher_id
UserDeleteOk(id) == ~ \E c \in classes : c.teacherId = id

\* students(id) is referenced by enrollments.student_id and grades.student_id
StudentDeleteOk(id) ==
  /\ ~ \E e \in enrollments : e.studentId = id
  /\ ~ \E g \in grades : g.studentId = id

\* classes(id) is referenced by enrollments.class_id and assignments.class_id
ClassDeleteOk(id) ==
  /\ ~ \E e \in enrollments : e.classId = id
  /\ ~ \E a \in assignments : a.classId = id

\* assignments(id) is referenced by grades.assignment_id
AssignmentDeleteOk(id) == ~ \E g \in grades : g.assignmentId = id

\* The route with its check of the classes table left out
NoAssignedClasses(id) == {}

\* DELETE /api/teachers/:id: db.select().from(classes).where(eq(classes.teacherId, id))
AssignedClasses(id) == {c \in classes : c.teacherId = id}

\* DELETE /api/teachers/:id
DeleteTeacher(caller, id) ==
  /\ Authenticated(caller)
  /\ IF AssignedClasses(id) # {}
     THEN /\ users' = users
          /\ response' = [op |-> "deleteTeacher", caller |-> caller, userId |-> id,
                          status |-> 400, message |-> "assigned"]
     ELSE IF ~ UserDeleteOk(id)
     THEN /\ users' = users
          /\ response' = [op |-> "deleteTeacher", caller |-> caller, userId |-> id,
                          status |-> 500, message |-> "failed"]
     ELSE IF ~ UserExists(id)
     THEN /\ users' = users
          /\ response' = [op |-> "deleteTeacher", caller |-> caller, userId |-> id,
                          status |-> 404, message |-> "not found"]
     ELSE /\ users' = {u \in users : u.id # id}
          /\ response' = [op |-> "deleteTeacher", caller |-> caller, userId |-> id,
                          status |-> 200, message |-> "deleted"]
  /\ UNCHANGED <<students, classes, enrollments, assignments, grades, now, requests>>

\* DELETE /api/students/:id -> storage.deleteStudent: delete from students,
\* then delete from users, two statements outside any transaction
DeleteStudent(caller, id) ==
  /\ Authenticated(caller)
  /\ IF ~ StudentDeleteOk(id)
     THEN /\ students' = students /\ users' = users
          /\ response' = [op |-> "deleteStudent", caller |-> caller, userId |-> id, status |-> 500]
     ELSE IF ~ UserDeleteOk(id)
     THEN /\ students' = {st \in students : st.id # id} /\ users' = users
          /\ response' = [op |-> "deleteStudent", caller |-> caller, userId |-> id, status |-> 500]
     ELSE /\ students' = {st \in students : st.id # id}
          /\ users' = {u \in users : u.id # id}
          /\ response' = [op |-> "deleteStudent", caller |-> caller, userId |-> id, status |-> 204]
  /\ UNCHANGED <<classes, enrollments, assignments, grades, now, requests>>

\* PUT /api/classes/:id -> storage.updateClass, the body carrying teacherId
UpdateClass(caller, id, teacherId) ==
  /\ Authenticated(caller)
  /\ IF UserExists(teacherId) \/ ~ ClassExists(id)
     THEN /\ classes' = {IF c.id = id THEN [c EXCEPT !.teacherId = teacherId] ELSE c : c \in classes}
          /\ response' = [op |-> "updateClass", caller |-> caller, id |-> id, status |-> 200]
     ELSE /\ classes' = classes
          /\ response' = [op |-> "updateClass", caller |-> caller, id |-> id, status |-> 500]
  /\ UNCHANGED <<users, students, enrollments, assignments, grades, now, requests>>

\* DELETE /api/classes/:id -> storage.deleteClass
DeleteClass(caller, id) ==
  /\ Authenticated(caller)
  /\ IF ClassDeleteOk(id)
     THEN /\ classes' = {c \in classes : c.id # id}
          /\ response' = [op |-> "deleteClass", caller |-> caller, id |-> id, status |-> 204]
     ELSE /\ classes' = classes
          /\ response' = [op |-> "deleteClass", caller |-> caller, id |-> id, status |-> 500]
  /\ UNCHANGED <<users, students, enrollments, assignments, grades, now, requests>>

\* PUT /api/assignments/:id -> storage.updateAssignment, the body carrying classId
UpdateAssignment(caller, id, classId) ==
  /\ Authenticated(caller)
  /\ IF ClassExists(classId) \/ ~ AssignmentExists(id)
     THEN /\ assignments' = {IF a.id = id THEN [a EXCEPT !.classId = classId] ELSE a : a \in assignments}
          /\ response' = [op |-> "updateAssignment", caller |-> caller, id |-> id, status |-> 200]
     ELSE /\ assignments' = assignments
          /\ response' = [op |-> "updateAssignment", caller |-> caller, id |-> id, status |-> 500]
  /\ UNCHANGED <<users, students, classes, enrollments, grades, now, requests>>

\* DELETE /api/assignments/:id -> storage.deleteAssignment
DeleteAssignment(caller, id) ==
  /\ Authenticated(caller)
  /\ IF AssignmentDeleteOk(id)
     THEN /\ assignments' = {a \in assignments : a.id # id}
          /\ response' = [op |-> "deleteAssignment", caller |-> caller, id |-> id, status |-> 204]
     ELSE /\ assignments' = assignments
          /\ response' = [op |-> "deleteAssignment", caller |-> caller, id |-> id, status |-> 500]
  /\ UNCHANGED <<users, students, classes, enrollments, grades, now, requests>>

\* DELETE /api/classes/:classId/students/:studentId -> storage.unenrollStudent
Unenroll(caller, studentId, classId) ==
  /\ Authenticated(caller)
  /\ enrollments' = {e \in enrollments : ~ (e.studentId = studentId /\ e.classId = classId)}
  /\ response' = [op |-> "unenroll", caller |-> caller, status |-> 204]
  /\ UNCHANGED <<users, students, classes, assignments, grades, now, requests>>

\* Callers and owners of SpecIntegrity: the admin, one teacher, one student
Owners == {"t1", "s1"}

NextIntegrity ==
  \/ \E t \in Owners : CreateClass("ad", t)
  \/ \E c \in ClassIds : PostEnrollment("ad", "s1", c)
  \/ \E c \in ClassIds : CreateAssignment("ad", c, 5000, Ts(2))
  \/ \E a \in AssignmentIds : CreateGrade("ad", "s1", a, Dec(4500))
  \/ \E id \in GradeIds, a \in AssignmentIds : UpdateGrade("ad", id, Absent, a)
  \/ \E id \in ClassIds, t \in Owners : UpdateClass("ad", id, t)
  \/ \E id \in AssignmentIds, c \in ClassIds : UpdateAssignment("ad", id, c)
  \/ \E id \in Owners : DeleteTeacher("ad", id)
  \/ \E id \in Owners : DeleteStudent("ad", id)
  \/ \E id \in ClassIds : DeleteClass("ad", id)
  \/ \E id \in AssignmentIds : DeleteAssignment("ad", id)
  \/ \E id \in GradeIds : DeleteGrade("ad", id)
  \/ \E c \in ClassIds : Unenroll("ad", "s1", c)
  \/ Send

SpecIntegrity == Init /\ [][NextIntegrity]_vars

\* Every foreign key of the schema points at a stored row
NoDanglingReference ==
  /\ \A c \in classes : \E u \in users : u.id = c.teacherId
  /\ \A e \in enrollments : /\ \E st \in students : st.id = e.studentId
                            /\ \E c \in classes : c.id = e.classId
  /\ \A a \in assignments : \E c \in classes : c.id = a.classId
  /\ \A g \in grades : /\ \E st \in students : st.id = g.studentId
                       /\ \E a \in assignments : a.id = g.assignmentId

DeleteOps == {"deleteTeacher", "deleteStudent", "deleteClass", "deleteAssignment"}

\* C11: DELETE /api/teachers/:id for a teacher some class names as its
\* teacher is answered 400 with the reason and removes no user row, and no
\* step removes a teacher's user row while a class references it.
C11_OwningTeacherNotDeleted ==
  [][/\ (response'.op = "deleteTeacher"
          /\ \E c \in classes : c.teacherId = response'.userId) =>
          (response'.status = 400 /\ response'.message = "assigned" /\ users' = users)
     /\ \A u \in users :
          (u.role = "teacher" /\ u \notin users') =>
             /\ ~ \E c \in classes : c.teacherId = u.id
             /\ ~ \E c \in classes' : c.teacherId = u.id]_vars

\* C11 witness: the deletion of a teacher who owns a class has been refused
C11_Witness ==
  /\ response.op = "deleteTeacher" /\ response.status = 400
  /\ response.userId = "t1"
  /\ \E u \in users : u.id = "t1" /\ u.role = "teacher"
  /\ \E c \in classes : c.teacherId = "t1"

\* C12: after any create, update or delete no stored row has a dangling
\* reference, and a delete that is refused because it would leave one
\* changes nothing.
\* The code breaks the second half: deleteStudent deletes the students row
\* and then the users row in two statements; when a class names that user as
\* its teacher the second statement is refused after the first has removed
\* the students row.
C12_NoDanglingReferenceDeleteAtomic ==
  [][/\ NoDanglingReference'
     /\ (response'.op \in DeleteOps /\ response'.status = 500) => tables' = tables]_vars

----------------------------------------------------------------------------
(* Claims about the student views (Spec) *)

\* The enrollment rows the getStudents query matches for a student: all of
\* the student's rows, or with a teacher scope those in the teacher's classes
MatchingEnrollments(studentId, scope) ==
  {e \in enrollments :
     /\ e.studentId = studentId
     /\ scope = Undefined \/ \E c \in classes : c.id = e.classId /\ c.teacherId = scope}

\* C13: getStudents answers one view object per matching student id, also
\* when the join has several enrollment rows for the student, and the view's
\* enrollments list holds every matching enrollment row exactly once (it is
\* empty for a student with no enrollment).
C13_OneViewPerStudentAllEnrollments ==
  (response.op = "getStudents") =>
    LET scope == ScopeOf(response.caller)
        body == response.body
    IN /\ \A i, j \in 1..Len(body) : body[i].id = body[j].id => i = j
       /\ {v.id : v \in Range(body)} =
            IF scope = Undefined THEN {st.id : st \in students}
            ELSE {st.id : st \in {x \in students : MatchingEnrollments(x.id, scope) # {}}}
       /\ \A v \in Range(body) :
            /\ {x.enrollment : x \in Range(v.enrollments)} = MatchingEnrollments(v.id, scope)
            /\ \A i, j \in 1..Len(v.enrollments) :
                 v.enrollments[i].enrollment.id = v.enrollments[j].enrollment.id => i = j
            /\ \A x \in Range(v.enrollments) : x.class.id = x.enrollment.classId

\* C13 witness: a student with two enrollment rows is answered as one view
\* with both, next to a student with none and an empty list
C13_Witness ==
  /\ response.op = "getStudents" /\ response.caller = "ad"
  /\ Len(response.body) = 2
  /\ \E v \in Range(response.body) : v.id = "s1" /\ Len(v.enrollments) = 2
  /\ \E v \in Range(response.body) : v.id = "s2" /\ Len(v.enrollments) = 0

----------------------------------------------------------------------------
(* SpecStudent: the single-student view.  StudentClasses classes exist,    *)
(* each with one 50-point assignment; student s1 is enrolled in some of    *)
(* them and may already hold a grade in the last one.  Grades are created  *)
(* and deleted, the student is unenrolled, and the views are read.         *)

\* getStudent keeping the first enrollment of the join only
getStudentOneEnrollment(id) ==
  IF ~ StudentExists(id) THEN Absent
  ELSE [id |-> id,
        enrollments |-> Limit(Map(LAMBDA e : [enrollment |-> e, class |-> ClassRow(e.classId)],
                                  SortById({e \in enrollments : e.studentId = id /\ ClassExists(e.classId)})), 1),
        grades |-> StudentGradeViews(id),
        currentGrade |-> CurrentGrade(StudentGradeViews(id))]

\* storage.getStudent: the student row, its enrollments INNER JOIN classes,
\* its grades INNER JOIN assignments, and currentGrade
getStudent(id) ==
  IF ~ StudentExists(id) THEN Absent
  ELSE [id |-> id,
        enrollments |-> Map(LAMBDA e : [enrollment |-> e, class |-> ClassRow(e.classId)],
                            SortById({e \in enrollments : e.studentId = id /\ ClassExists(e.classId)})),
        grades |-> StudentGradeViews(id),
        currentGrade |-> CurrentGrade(StudentGradeViews(id))]

\* GET /api/students/:id: 404 for an absent result, 500 from the catch block
GetStudent(caller, id) ==
  /\ Authenticated(caller)
  /\ response' = [op |-> "getStudent", caller |-> caller, userId |-> id,
                  status |-> IF getStudent(id) = Failed THEN 500
                             ELSE IF getStudent(id) = Absent THEN 404 ELSE 200,
                  body |-> IF getStudent(id) = Failed THEN Absent ELSE getStudent(id)]
  /\ UNCHANGED <<tables, now, requests>>

\* The grade s1 may hold from the start: 46 of 50 points on the assignment
\* of the last class, as createGrade stores it
SeedGrade ==
  GradeRow(StudentClasses + 1,
           ComputedGrade(GradePayload("s1", StudentClasses, Dec(4600))))

InitStudent ==
  /\ users = SeedUsers
  /\ students = {[id |-> st] : st \in StudentUsers}
  /\ classes = {[id |-> c, teacherId |-> IF c = 1 THEN "t1" ELSE "t2"] : c \in 1..StudentClasses}
  /\ assignments = {[id |-> c, classId |-> c, totalPoints |-> 5000, dueDate |-> Null] :
                      c \in 1..StudentClasses}
  /\ \E cs \in SUBSET (1..StudentClasses) :
        enrollments = {[id |-> c, studentId |-> "s1", classId |-> c] : c \in cs}
  /\ now = 1
  /\ grades \in {{}, {SeedGrade}}
  /\ response = Idle
  /\ requests = [i \in RequestIds |-> NoRequest]

\* 46, 39, 42.5 and 46.5 of 50 points (92, 78, 85 and 93 percent), or none
StudentPointsInputs == {Null, Dec(4600), Dec(3900), Dec(4250), Dec(4650)}

NextStudent ==
  \/ \E a \in 1..StudentClasses, pe \in StudentPointsInputs : CreateGrade("ad", "s1", a, pe)
  \/ \E id \in 1..(StudentClasses + 1) : DeleteGrade("ad", id)
  \/ \E c \in 1..StudentClasses : Unenroll("ad", "s1", c)
  \/ \E id \in StudentUsers \cup {"nobody"} : GetStudent("t1", id)
  \/ GetStudents("ad")
  \/ Send

SpecStudent == InitStudent /\ [][NextStudent]_vars

\* The stored grades of a student
GradesOf(studentId) == {g \in grades : g.studentId = studentId}

\* All of them carry a percentage
AllGraded(S) == \A g \in S : g.percentage.k = "dec"

\* The sum of the percentages of a set of grade rows, in hundredths
RECURSIVE SumOfPercentages(_)
SumOfPercentages(S) ==
  IF S = {} THEN 0
  ELSE LET g == CHOOSE x \in S : TRUE
       IN g.percentage.v + SumOfPercentages(S \ {g})

\* The mean percentage of a non-empty set of grade rows
MeanOf(S) == Rat(SumOfPercentages(S), 100 * Cardinality(S))

\* r is the integer nearest to the mean of S (a half rounds up)
IsMeanRounded(r, S) ==
  /\ 2 * SumOfPercentages(S) >= (2 * r - 1) * 100 * Cardinality(S)
  /\ 2 * SumOfPercentages(S) < (2 * r + 1) * 100 * Cardinality(S)

\* The classes of the assignments a list of grade views is on
GradedClasses(gs) == {x.assignment.classId : x \in Range(gs)}

\* C14: getStudent(id) answers every enrollment of the student (3 entries
\* for 3 classes) and exactly the student's grades (those of the 2 graded
\* classes), and currentGrade is the mean over all of these grades, whatever
\* class each is in.
C14_GetStudentGroupsEnrollmentsAndGrades ==
  (response.op = "getStudent" /\ response.status = 200) =>
    LET v == response.body
        mine == GradesOf(v.id)
    IN /\ v.id = response.userId
       /\ {x.enrollment : x \in Range(v.enrollments)} = {e \in enrollments : e.studentId = v.id}
       /\ Len(v.enrollments) = Cardinality({e \in enrollments : e.studentId = v.id})
       /\ \A x \in Range(v.enrollments) : x.class.id = x.enrollment.classId
       /\ {x.grade : x \in Range(v.grades)} = mine
       /\ Len(v.grades) = Cardinality(mine)
       /\ \A x \in Range(v.grades) : x.assignment.id = x.grade.assignmentId
       /\ GradedClasses(v.grades) = {a.classId : a \in {b \in assignments : \E g \in mine : g.assignmentId = b.id}}
       /\ (mine # {} /\ AllGraded(mine)) =>
            /\ v.currentGrade # Absent
            /\ v.currentGrade.percentage.d = 1
            /\ IsMeanRounded(v.currentGrade.percentage.n, mine)

\* C14 witness: s1, enrolled in 3 classes and graded in 2 of them, is
\* answered with 3 enrollments, the 2 grades and a currentGrade
C14_Witness ==
  /\ response.op = "getStudent" /\ response.status = 200 /\ response.userId = "s1"
  /\ Len(response.body.enrollments) = 3
  /\ Len(response.body.grades) = 2
  /\ Cardinality(GradedClasses(response.body.grades)) = 2
  /\ AllGraded(GradesOf("s1"))
  /\ response.body.currentGrade # Absent

\* The student views an answer carries
StudentViews(r) ==
  IF r.op = "getStudents" THEN Range(r.body)
  ELSE IF r.op = "getStudent" /\ r.status = 200 THEN {r.body}
  ELSE {}

----------------------------------------------------------------------------
(* SpecDashboard: getDashboardStats.  Classes, enrollments, assignments    *)
(* with due dates around the seven-day window, and grades are written and  *)
(* removed; the dashboard is read by a teacher and by the admin.  Times    *)
(* are milliseconds.  The counts are modelled by the number counted.       *)

\* 7 * 24 * 60 * 60 * 1000 milliseconds
Week == 7 * 24 * 60 * 60 * 1000

\* classConditions: the classes of the teacher, or all classes
ScopedClasses(teacherId) ==
  {c \in classes : teacherId = Undefined \/ c.teacherId = teacherId}

\* students INNER JOIN enrollments INNER JOIN classes WHERE classConditions
EnrolledRows(teacherId) ==
  {e \in enrollments : /\ StudentExists(e.studentId)
                       /\ \E c \in ScopedClasses(teacherId) : c.id = e.classId}

\* count(*) over the join where the code counts distinct students
TotalStudentsAllRows(teacherId) == Cardinality(EnrolledRows(teacherId))

\* count(distinct students.id)
TotalStudents(teacherId) == Cardinality({e.studentId : e \in EnrolledRows(teacherId)})

\* grades INNER JOIN assignments INNER JOIN classes WHERE classConditions
ScopedGrades(teacherId) ==
  {g \in grades : \E a \in assignments :
                     a.id = g.assignmentId /\ \E c \in ScopedClasses(teacherId) : c.id = a.classId}

\* averageGrade without the null test: the letter of 0 when there is no average
AverageGradeOrF(teacherId) ==
  LET rows == {g \in ScopedGrades(teacherId) : g.percentage # Null}
  IN IF rows = {} THEN getLetterGrade(Rat(0, 1))
     ELSE getLetterGrade(Rat(SumPercentages(Map(LAMBDA g : [grade |-> g], SortById(rows))),
                             100 * Cardinality(rows)))

\* avg(grades.percentage) skips NULL percentages and is NULL over no value;
\* averageGrade = avgGrade != null ? getLetterGrade(avgGrade) : "-"
AverageGrade(teacherId) ==
  LET rows == {g \in ScopedGrades(teacherId) : g.percentage # Null}
  IN IF rows = {} THEN "-"
     ELSE IF \E g \in rows : g.percentage.k = "nan" THEN getLetterGrade(NaN)
     ELSE getLetterGrade(Rat(SumPercentages(Map(LAMBDA g : [grade |-> g], SortById(rows))),
                             100 * Cardinality(rows)))

\* assignmentsDue with the end of the window excluded
AssignmentsDueBefore(teacherId, nowMs, weekFromNowMs) ==
  Cardinality({a \in assignments :
                 /\ \E c \in ScopedClasses(teacherId) : c.id = a.classId
                 /\ a.dueDate # Null
                 /\ a.dueDate.v >= nowMs /\ a.dueDate.v < weekFromNowMs})

\* count(*) of assignments INNER JOIN classes WHERE classConditions AND
\* due_date >= nowStr AND due_date <= weekFromNowStr (a NULL due date fails both)
AssignmentsDue(teacherId, nowMs, weekFromNowMs) ==
  Cardinality({a \in assignments :
                 /\ \E c \in ScopedClasses(teacherId) : c.id = a.classId
                 /\ a.dueDate # Null
                 /\ a.dueDate.v >= nowMs /\ a.dueDate.v <= weekFromNowMs})

\* count(*) of classes WHERE classConditions
ActiveClasses(teacherId) == Cardinality(ScopedClasses(teacherId))

\* A dashboard that answers what it computed on the empty store
getDashboardStatsOnce(teacherId, elapsed) ==
  [totalStudents |-> 0, averageGrade |-> "-", assignmentsDue |-> 0, activeClasses |-> 0]

\* storage.getDashboardStats; the clock is read twice, new Date() and then
\* Date.now(), elapsed milliseconds apart
getDashboardStats(teacherId, elapsed) ==
  [totalStudents |-> TotalStudents(teacherId),
   averageGrade |-> AverageGrade(teacherId),
   assignmentsDue |-> AssignmentsDue(teacherId, now, now + elapsed + Week),
   activeClasses |-> ActiveClasses(teacherId)]

\* GET /api/dashboard/stats
GetDashboardStats(caller, elapsed) ==
  Answer("getDashboardStats", caller, getDashboardStats(ScopeOf(caller), elapsed))

InitDashboard ==
  /\ users = SeedUsers
  /\ students = {[id |-> st] : st \in StudentUsers}
  /\ classes = {}
  /\ enrollments = {}
  /\ assignments = {}
  /\ grades = {}
  /\ now = 1000
  /\ response = Idle
  /\ requests = [i \in RequestIds |-> NoRequest]

\* PUT /api/assignments/:id -> storage.updateAssignment, the body being
\* { dueDate: null }
ClearDueDate(caller, id) ==
  /\ Authenticated(caller)
  /\ assignments' = {IF a.id = id THEN [a EXCEPT !.dueDate = Null] ELSE a : a \in assignments}
  /\ response' = [op |-> "updateAssignment", caller |-> caller, id |-> id, status |-> 200]
  /\ UNCHANGED <<users, students, classes, enrollments, grades, now, requests>>

\* Due one second ago, now, seven days from now, and a second later
DueDateInputs == {Ts(now - 1000), Ts(now), Ts(now + Week), Ts(now + Week + 1000)}

\* No points, or 46 of 50 points (92 percent)
DashboardPointsInputs == {Null, Dec(4600)}

NextDashboard ==
  \/ \E t \in Teachers : CreateClass(t, t)
  \/ \E c \in ClassIds : PostEnrollment("ad", "s1", c)
  \/ \E d \in DueDateInputs : CreateAssignment("ad", 1, 5000, d)
  \/ CreateAssignment("ad", 2, 5000, Ts(now))
  \/ \E id \in AssignmentIds : ClearDueDate("ad", id)
  \/ \E a \in AssignmentIds, pe \in DashboardPointsInputs : CreateGrade("ad", "s1", a, pe)
  \/ \E id \in GradeIds : UpdateGrade("ad", id, Dec(3900), 0)
  \/ \E id \in GradeIds : DeleteGrade("ad", id)
  \/ \E id \in AssignmentIds : DeleteAssignment("ad", id)
  \/ \E id \in ClassIds : DeleteClass("ad", id)
  \/ \E c \in ClassIds : Unenroll("ad", "s1", c)
  \/ \E caller \in {"t1", "ad"}, elapsed \in {0, 1} : GetDashboardStats(caller, elapsed)
  \/ Send

SpecDashboard == InitDashboard /\ [][NextDashboard]_vars

\* What the dashboard is expected to show for a scope (a teacher id, or
\* Undefined for all classes), written from the stored rows

InScopeClassIds(scope) == {c.id : c \in {x \in classes : scope = Undefined \/ x.teacherId = scope}}

ExpectedTotalStudents(scope) ==
  Cardinality({st.id : st \in {x \in students :
     \E e \in enrollments : e.studentId = x.id /\ e.classId \in InScopeClassIds(scope)}})

ExpectedAssignmentsDue(scope) ==
  Cardinality({a \in assignments :
     /\ a.classId \in InScopeClassIds(scope)
     /\ a.dueDate # Null
     /\ now <= a.dueDate.v /\ a.dueDate.v <= now + Week})

InScopeGrades(scope) ==
  {g \in grades : \E a \in assignments : a.id = g.assignmentId /\ a.classId \in InScopeClassIds(scope)}

\* Some in-scope grade carries a percentage
ExpectedHasAverage(scope) == \E g \in InScopeGrades(scope) : g.percentage # Null

IsDashboardAnswer(r) == r.op = "getDashboardStats"

\* C16: totalStudents is the number of distinct students with an enrollment
\* in an in-scope class: a student enrolled in two of them counts once, a
\* student with no enrollment does not count.
C16_TotalStudentsCountsDistinctEnrolled ==
  IsDashboardAnswer(response) =>
    response.body.totalStudents = ExpectedTotalStudents(ScopeOf(response.caller))

\* C16 witness: s1 is enrolled in two classes of t1, s2 in none, and t1 is
\* shown 1
C16_Witness ==
  /\ IsDashboardAnswer(response) /\ response.caller = "t1"
  /\ Cardinality({e \in enrollments : e.studentId = "s1"
                                      /\ e.classId \in InScopeClassIds("t1")}) = 2
  /\ ~ \E e \in enrollments : e.studentId = "s2"
  /\ response.body.totalStudents = 1

\* C17: assignmentsDue counts exactly the in-scope assignments due from now
\* to seven days from now, both ends included: not one due a second later,
\* not one due before now, not one without a due date.
C17_AssignmentsDueWindowInclusive ==
  IsDashboardAnswer(response) =>
    /\ response.body.assignmentsDue = ExpectedAssignmentsDue(ScopeOf(response.caller))
    /\ response.body.assignmentsDue <=
         Cardinality({a \in assignments : a.dueDate \in {Ts(now), Ts(now + Week)}})

\* C17 witness: of two assignments of t1, the one due in exactly seven days
\* is counted and the one due a second later is not
C17_Witness ==
  /\ IsDashboardAnswer(response) /\ response.caller = "t1"
  /\ \E a \in assignments : a.classId \in InScopeClassIds("t1") /\ a.dueDate = Ts(now + Week)
  /\ \E a \in assignments : a.classId \in InScopeClassIds("t1") /\ a.dueDate = Ts(now + Week + 1000)
  /\ response.body.assignmentsDue = 1

C19_DashboardComputedFromCurrentState ==
  [][\A caller \in UserIds :
       (IsDashboardAnswer(response') /\ response'.caller = caller) =>
         /\ response'.body.totalStudents = ExpectedTotalStudents(ScopeOf(caller))'
         /\ response'.body.assignmentsDue = ExpectedAssignmentsDue(ScopeOf(caller))'
         /\ response'.body.activeClasses = Cardinality(InScopeClassIds(ScopeOf(caller)))'
         /\ (response'.body.averageGrade # "-") = ExpectedHasAverage(ScopeOf(caller))']_vars

\* C19 witness: an answer that shows a class, an enrollment, an assignment
\* and a grade written before it
C19_Witness ==
  /\ IsDashboardAnswer(response)
  /\ response.body.activeClasses = 2
  /\ response.body.totalStudents = 1
  /\ response.body.assignmentsDue = 2
  /\ response.body.averageGrade = "A-"

----------------------------------------------------------------------------
(* The single-row reads of classes, assignments and grades, and their      *)
(* routes (read in SpecIntegrity, where rows come and go)                  *)

\* getClass raising an error when no row matches
getClassOrThrow(id) ==
  IF ~ (ClassExists(id) /\ UserExists(ClassRow(id).teacherId)) THEN Failed
  ELSE [id |-> id, teacherId |-> ClassRow(id).teacherId]

\* storage.getClass: classes INNER JOIN users WHERE classes.id = id, with
\* the class's enrollments INNER JOIN students and its assignments
getClass(id) ==
  IF ~ (ClassExists(id) /\ UserExists(ClassRow(id).teacherId)) THEN Absent
  ELSE [id |-> id, teacherId |-> ClassRow(id).teacherId,
        teacher |-> CHOOSE u \in users : u.id = ClassRow(id).teacherId,
        enrollments |-> Map(LAMBDA e : [enrollment |-> e, student |-> StudentRow(e.studentId)],
                            SortById({e \in enrollments : e.classId = id /\ StudentExists(e.studentId)})),
        assignments |-> SortById({a \in assignments : a.classId = id})]

\* storage.getAssignment: assignments INNER JOIN classes WHERE
\* assignments.id = id, with its grades INNER JOIN students
getAssignment(id) ==
  IF ~ (AssignmentExists(id) /\ ClassExists(AssignmentRow(id).classId)) THEN Absent
  ELSE LET gradeData == SortById({g \in grades : g.assignmentId = id /\ StudentExists(g.studentId)})
       IN [id |-> id, assignment |-> AssignmentRow(id),
           class |-> ClassRow(AssignmentRow(id).classId),
           grades |-> Map(LAMBDA g : [grade |-> g, student |-> StudentRow(g.studentId)], gradeData),
           submissionCount |-> Len(gradeData)]

\* storage.getGrade: grades INNER JOIN students INNER JOIN assignments
\* INNER JOIN classes WHERE grades.id = id
getGrade(id) ==
  IF \E g \in grades : g.id = id /\ GradeJoinable(g)
  THEN [id |-> id] @@ GradeView(CHOOSE g \in grades : g.id = id)
  ELSE Absent

\* The routes GET /api/classes/:id, /api/assignments/:id, /api/grades/:id:
\* 404 for an absent result, 500 from the catch block
AnswerOne(op, caller, id, result) ==
  /\ Authenticated(caller)
  /\ response' = [op |-> op, caller |-> caller, id |-> id,
                  status |-> IF result = Failed THEN 500
                             ELSE IF result = Absent THEN 404 ELSE 200,
                  body |-> IF result = Failed THEN Absent ELSE result]
  /\ UNCHANGED <<tables, now, requests>>

\* GET /api/classes/:id
GetClass(caller, id) == AnswerOne("getClass", caller, id, getClass(id))

\* GET /api/assignments/:id
GetAssignment(caller, id) == AnswerOne("getAssignment", caller, id, getAssignment(id))

\* GET /api/grades/:id
GetGrade(caller, id) == AnswerOne("getGrade", caller, id, getGrade(id))

\* The creates, updates and deletes of SpecIntegrity with the single-row
\* reads between them
NextLookup ==
  \/ NextIntegrity
  \/ \E id \in Owners : GetStudent("ad", id)
  \/ \E id \in ClassIds : GetClass("ad", id)
  \/ \E id \in AssignmentIds : GetAssignment("ad", id)
  \/ \E id \in GradeIds : GetGrade("ad", id)

SpecLookup == Init /\ [][NextLookup]_vars

LookupOps == {"getClass", "getAssignment", "getGrade"}

\* C20: getStudent, getClass, getAssignment and getGrade with an id that
\* matches no row answer the absent value, not an error, and change nothing
\* in the store; the route answers 404.  With a matching row the answer is
\* that row's view.
C20_LookupOfMissingRowIsAbsent ==
  [][/\ response'.op = "getStudent" =>
          /\ tables' = tables
          /\ IF \E st \in students : st.id = response'.userId
             THEN response'.status = 200 /\ response'.body.id = response'.userId
             ELSE response'.status = 404 /\ response'.body = Absent
     /\ response'.op \in LookupOps =>
          /\ tables' = tables
          /\ IF \/ response'.op = "getClass" /\ \E c \in classes : c.id = response'.id
                \/ response'.op = "getAssignment" /\ \E a \in assignments : a.id = response'.id
                \/ response'.op = "getGrade" /\ \E g \in grades : g.id = response'.id
             THEN response'.status = 200 /\ response'.body.id = response'.id
             ELSE response'.status = 404 /\ response'.body = Absent]_vars

\* C20 witness: a class id that matches no row, while another class is
\* stored, has been looked up and answered 404 with the absent value
C20_Witness ==
  /\ response.op = "getClass" /\ response.status = 404 /\ response.body = Absent
  /\ ~ \E c \in classes : c.id = response.id
  /\ \E c \in classes : c.id # response.id

----------------------------------------------------------------------------
(* SpecListing: the dashboard's two lists while the clock advances.  Two   *)
(* classes exist, one per teacher; assignments are created with due dates  *)
(* around the clock, grades are stamped with the clock at insert.          *)

\* The clock stops here
MaxTime == 3

\* Time passes between two requests
Tick ==
  /\ response = Idle
  /\ now < MaxTime
  /\ now' = now + 1
  /\ UNCHANGED <<users, students, classes, enrollments, assignments, grades, response, requests>>

InitListing ==
  /\ users = SeedUsers
  /\ students = {[id |-> st] : st \in StudentUsers}
  /\ classes = {[id |-> 1, teacherId |-> "t1"], [id |-> 2, teacherId |-> "t2"]}
  /\ enrollments = {}
  /\ assignments = {}
  /\ grades = {}
  /\ now = 1
  /\ response = Idle
  /\ requests = [i \in RequestIds |-> NoRequest]

NextListing ==
  \/ Tick
  \/ \E c \in ClassIds, d \in 1..MaxTime : CreateAssignment("ad", c, 5000, Ts(d))
  \/ \E id \in AssignmentIds : ClearDueDate("ad", id)
  \/ \E a \in AssignmentIds : CreateGrade("ad", "s1", a, Dec(4500))
  \/ \E id \in GradeIds : DeleteGrade("ad", id)
  \/ \E caller \in {"t1", "ad"} : GetGrades(caller, Undefined, 0, 0)
  \/ \E caller \in {"t1", "ad"}, n \in Limits : GetRecentGrades(caller, n)
  \/ \E caller \in {"t1", "ad"}, n \in Limits : GetUpcomingAssignments(caller, n)
  \/ Send

SpecListing == InitListing /\ [][NextListing]_vars

\* The rows of a list answer are in non-increasing order of gradedAt
NewestFirst(body) ==
  \A i, j \in 1..Len(body) : i < j => body[i].grade.gradedAt >= body[j].grade.gradedAt

\* The ids of the grades an answer lists
ListedGradeIds(body) == {body[i].grade.id : i \in 1..Len(body)}

Smaller(a, b) == IF a < b THEN a ELSE b

\* C21: getGrades and getRecentGrades answer grades newest first (gradedAt
\* never increases along the list); getRecentGrades(limit, teacherId) lists
\* no grade twice, only grades in the caller's scope, as many as the limit
\* allows (the limit, or all of them when fewer are in scope), and no grade
\* left out was graded later than a listed one.
C21_RecentGradesNewestFirstLimited ==
  /\ response.op \in {"getGrades", "getRecentGrades"} => NewestFirst(response.body)
  /\ response.op = "getRecentGrades" =>
       LET inScope == InScopeGrades(ScopeOf(response.caller))
           listed == ListedGradeIds(response.body)
       IN /\ Len(response.body) = Smaller(response.limit, Cardinality(inScope))
          /\ Cardinality(listed) = Len(response.body)
          /\ listed \subseteq {g.id : g \in inScope}
          /\ \A i \in 1..Len(response.body) : response.body[i].grade \in inScope
          /\ \A g \in inScope : g.id \notin listed =>
               \A i \in 1..Len(response.body) : response.body[i].grade.gradedAt >= g.gradedAt

\* A teacher asked for one recent grade while two grades of different
\* times were in scope, and got the later one
C21_Witness ==
  /\ response.op = "getRecentGrades"
  /\ response.caller = "t1"
  /\ response.limit = 1
  /\ Len(response.body) = 1
  /\ \E g \in InScopeGrades("t1") : g.gradedAt < response.body[1].grade.gradedAt

\* The assignments of a scope that are due now or later
UpcomingInScope(scope) ==
  {a \in assignments :
     /\ a.classId \in InScopeClassIds(scope)
     /\ a.dueDate # Null
     /\ a.dueDate.v >= now}

\* C22: getUpcomingAssignments(limit, teacherId) lists no assignment twice,
\* only assignments of the caller's scope whose due date is now or later (so
\* none that is past due or has no due date), as many as the limit allows,
\* in non-decreasing order of due date, and no assignment left out is due
\* earlier than a listed one.
C22_UpcomingAssignmentsEarliestFirstLimited ==
  response.op = "getUpcomingAssignments" =>
    LET upcoming == UpcomingInScope(ScopeOf(response.caller))
        body == response.body
        listed == {body[i].assignment.id : i \in 1..Len(body)}
    IN /\ Len(body) = Smaller(response.limit, Cardinality(upcoming))
       /\ Cardinality(listed) = Len(body)
       /\ \A i \in 1..Len(body) : body[i].assignment \in upcoming
       /\ \A i, j \in 1..Len(body) :
            i < j => body[i].assignment.dueDate.v <= body[j].assignment.dueDate.v
       /\ \A a \in upcoming : a.id \notin listed =>
            \A i \in 1..Len(body) : body[i].assignment.dueDate.v <= a.dueDate.v

\* A teacher asked for one upcoming assignment while the class had two due
\* now or later at different times, and got the earlier of the two
C22_Witness ==
  /\ response.op = "getUpcomingAssignments"
  /\ response.caller = "t1"
  /\ response.limit = 1
  /\ Len(response.body) = 1
  /\ \E a \in UpcomingInScope("t1") : a.dueDate.v > response.body[1].assignment.dueDate.v

\* The admin asked for the upcoming assignments while one was past due and
\* one had no due date, and got neither
C22_WitnessPast ==
  /\ response.op = "getUpcomingAssignments"
  /\ \E a \in assignments : a.dueDate = Null
  /\ \E a \in assignments : a.dueDate # Null /\ a.dueDate.v < now
  /\ response.body = <<>>

----------------------------------------------------------------------------
(* SpecCreateStudent: storage.createStudent, which writes a users row and  *)
(* then a students row in two statements.  Rows of users and students      *)
(* carry the columns with a UNIQUE constraint: users.email,                *)
(* students.student_id, students.email.                                    *)

\* A NULL varchar column, and a field the payload does not carry
NoText == "null"

\* The ids randomUUID() hands out
NewUserIds == {"u1", "u2"}

\* users.email is UNIQUE; the insert conflicts on users.id only
UserInsertOk(row) == ~ \E u \in users : u.id # row.id /\ u.email = row.email

\* students.student_id and students.email are UNIQUE (NULLs do not collide)
StudentInsertOk(row) ==
  /\ ~ \E st \in students : st.id = row.id
  /\ ~ \E st \in students : st.studentId = row.studentId
  /\ row.email = NoText \/ ~ \E st \in students : st.email = row.email

\* createStudent with its two inserts in one transaction
createStudentAtomic(student, id) ==
  LET user == [id |-> id, role |-> "student",
               email |-> IF student.email = NoText THEN "" ELSE student.email]
      newStudent == [id |-> id, studentId |-> student.studentId, email |-> student.email]
  IN IF ~ student.hasPassword THEN [ok |-> FALSE, users |-> users, students |-> students]
     ELSE IF ~ UserInsertOk(user) \/ ~ StudentInsertOk(newStudent)
     THEN [ok |-> FALSE, users |-> users, students |-> students]
     ELSE [ok |-> TRUE, users |-> users \cup {user}, students |-> students \cup {newStudent}]

\* storage.createStudent: bcrypt.hash(student.password) throws without a
\* password; upsertUser inserts the users row (email ?? ""); then the
\* students row is inserted under the same id.  The outcome: whether it
\* returned, and the two tables as it leaves them.
createStudent(student, id) ==
  LET user == [id |-> id, role |-> "student",
               email |-> IF student.email = NoText THEN "" ELSE student.email]
      newStudent == [id |-> id, studentId |-> student.studentId, email |-> student.email]
  IN IF ~ student.hasPassword THEN [ok |-> FALSE, users |-> users, students |-> students]
     ELSE IF ~ UserInsertOk(user) THEN [ok |-> FALSE, users |-> users, students |-> students]
     ELSE IF ~ StudentInsertOk(newStudent)
     THEN [ok |-> FALSE, users |-> users \cup {user}, students |-> students]
     ELSE [ok |-> TRUE, users |-> users \cup {user}, students |-> students \cup {newStudent}]

\* A call of storage.createStudent and the answer built from its outcome
\* (201 with the row, or 500)
CreateStudent(caller, studentId, email, hasPassword) ==
  LET student == [studentId |-> studentId, email |-> email, hasPassword |-> hasPassword]
      id == CHOOSE u \in NewUserIds : ~ UserExists(u)
      done == createStudent(student, id)
  IN /\ Authenticated(caller)
     /\ \E u \in NewUserIds : ~ UserExists(u)
     /\ users' = done.users
     /\ students' = done.students
     /\ response' = [op |-> "createStudent", caller |-> caller, req |-> student,
                     status |-> IF done.ok THEN 201 ELSE 500,
                     userId |-> IF done.ok THEN id ELSE Undefined]
     /\ UNCHANGED <<classes, enrollments, assignments, grades, now, requests>>

InitCreateStudent ==
  /\ users = {[id |-> "ad", role |-> "admin", email |-> "ad@x"]}
  /\ students = {}
  /\ classes = {}
  /\ enrollments = {}
  /\ assignments = {}
  /\ grades = {}
  /\ now = 1
  /\ response = Idle
  /\ requests = [i \in RequestIds |-> NoRequest]

StudentNumbers == {"S1", "S2"}

Emails == {NoText, "a@x", "b@x"}

NextCreateStudent ==
  \/ \E sid \in StudentNumbers, email \in Emails, pw \in BOOLEAN :
        CreateStudent("ad", sid, email, pw)
  \/ \E id \in NewUserIds : DeleteStudent("ad", id)
  \/ Send

SpecCreateStudent == InitCreateStudent /\ [][NextCreateStudent]_vars

\* C29: a createStudent call that fails leaves users and students as they
\* were; a call that succeeds adds exactly one users row, of role student,
\* and exactly one students row, the two sharing their id.
C29_CreateStudentAllOrNothing ==
  [][response'.op = "createStudent" =>
       IF response'.status = 201
       THEN \E u \in users' \ users, st \in students' \ students :
               /\ users' = users \cup {u}
               /\ students' = students \cup {st}
               /\ u.role = "student"
               /\ u.id = st.id
       ELSE users' = users /\ students' = students]_vars

----------------------------------------------------------------------------
(* SpecPayload: grades written with every payload insertGradeSchema lets   *)
(* through.  pointsEarned, percentage and letterGrade are optional and      *)
(* nullable, so a payload may leave pointsEarned out, send it as null, or   *)
(* carry percentage and letterGrade itself; an assignment's totalPoints     *)
(* may change after grades were computed from it.                           *)

\* POST /api/grades -> storage.createGrade, the payload as parsed
PostGrade(caller, grade) ==
  LET row == GradeRow(UnusedId(grades, GradeIds), ComputedGrade(grade))
      answer == [op |-> "createGrade", caller |-> caller, req |-> grade]
  IN /\ Authenticated(caller)
     /\ ExistingGrade(grade.studentId, grade.assignmentId) # {} \/ HasUnusedId(grades, GradeIds)
     /\ IF ExistingGrade(grade.studentId, grade.assignmentId) # {}
        THEN /\ grades' = grades
             /\ response' = answer @@ [status |-> 500, id |-> 0, error |-> "exists"]
        ELSE IF GradeWriteOk(row)
        THEN /\ grades' = grades \cup {row}
             /\ response' = answer @@ [status |-> 201, id |-> row.id, error |-> ""]
        ELSE /\ grades' = grades
             /\ response' = answer @@ [status |-> 500, id |-> 0, error |-> "database"]
     /\ UNCHANGED <<users, students, classes, enrollments, assignments, now, requests>>

\* PUT /api/grades/:id -> storage.updateGrade, the payload as parsed
\* (assignmentId 0: the payload does not carry it)
PutGrade(caller, id, grade) ==
  LET set == RecomputedGrade(id, grade)
      answer == [op |-> "updateGrade", caller |-> caller, id |-> id, req |-> grade]
  IN /\ Authenticated(caller)
     /\ IF \A g \in grades : g.id = id => GradeWriteOk(UpdatedRow(g, set))
        THEN /\ grades' = {IF g.id = id THEN UpdatedRow(g, set) ELSE g : g \in grades}
             /\ response' = answer @@ [status |-> 200]
        ELSE /\ grades' = grades
             /\ response' = answer @@ [status |-> 500]
     /\ UNCHANGED <<users, students, classes, enrollments, assignments, now, requests>>

\* PUT /api/assignments/:id -> storage.updateAssignment, the body carrying
\* totalPoints
SetTotalPoints(caller, id, totalPoints) ==
  /\ Authenticated(caller)
  /\ assignments' = {IF a.id = id THEN [a EXCEPT !.totalPoints = totalPoints] ELSE a :
                       a \in assignments}
  /\ response' = [op |-> "updateAssignment", caller |-> caller, id |-> id, status |-> 200]
  /\ UNCHANGED <<users, students, classes, enrollments, grades, now, requests>>

\* Payloads of POST /api/grades: 45 points, null or no points; with or
\* without a percentage of 10 and the letter A+ of the sender's own
CreatePayloads ==
  [studentId : {"s1"}, assignmentId : AssignmentIds,
   pointsEarned : {Dec(4500), Null, Absent},
   percentage : {Absent, Dec(1000)}, letterGrade : {NoLetter, "A+"}]

\* Payloads of PUT /api/grades/:id: 48.5 points or none; the rest as above
UpdatePayloads ==
  [assignmentId : {0} \cup AssignmentIds, pointsEarned : {Dec(4850), Absent},
   percentage : {Absent, Dec(1000)}, letterGrade : {NoLetter, "A+"}]

NextPayload ==
  \/ CreateAssignment("t1", 1, 5000, Ts(2))
  \/ \E id \in AssignmentIds : SetTotalPoints("t1", id, 10000)
  \/ \E grade \in CreatePayloads : PostGrade("t1", grade)
  \/ \E id \in GradeIds, grade \in UpdatePayloads : PutGrade("t1", id, grade)
  \/ \E id \in GradeIds : DeleteGrade("t1", id)
  \/ Send

SpecPayload == InitGrade /\ [][NextPayload]_vars

\* C24: a createGrade whose payload carries no pointsEarned (left out, or
\* null) and no percentage or letterGrade of its own stores, when it stores
\* a grade, one with percentage and letterGrade unset.
\* The code breaks it: a payload without the field passes the !== null test,
\* Number(undefined) is NaN, and the row is stored with percentage NaN and
\* letterGrade F.
C24_NoPointsNoComputation ==
  [][( /\ response'.op = "createGrade" /\ response'.status = 201
       /\ response'.req.pointsEarned \in {Absent, Null}
       /\ response'.req.percentage = Absent /\ response'.req.letterGrade = NoLetter ) =>
     \E g \in grades' \ grades :
        g.id = response'.id /\ g.percentage = Null /\ g.letterGrade = NoLetter]_vars

\* C25: an updateGrade whose payload carries no pointsEarned leaves the
\* grade's stored pointsEarned, percentage and letterGrade as they were, and
\* leaves every other grade row as it was.
\* The code breaks it: nothing is recomputed, but the payload may carry
\* percentage or letterGrade itself, and the update writes them to the row.
C25_UpdateWithoutPointsKeepsGrade ==
  [][\A g \in grades :
       ( /\ response'.op = "updateGrade" /\ response'.id = g.id
         /\ response'.req.pointsEarned = Absent ) =>
       /\ \E h \in grades' :
            /\ h.id = g.id
            /\ h.pointsEarned = g.pointsEarned
            /\ h.percentage = g.percentage
            /\ h.letterGrade = g.letterGrade
       /\ \A h \in grades : h.id # g.id => h \in grades']_vars

\* The grade's percentage and letter are the ones computed from its points
\* and its assignment's total points (the percentage as the column rounds it)
IsConsistent(g) ==
  LET tp == TotalPointsOf(g.assignmentId)
  IN /\ g.percentage.k = "dec"
     /\ IsRounded(g.percentage.v, g.pointsEarned.v, tp)
     /\ g.letterGrade = getLetterGrade(Rat(100 * g.pointsEarned.v, tp))

\* C26: every stored grade with points, on an assignment with totalPoints > 0,
\* has percentage = pointsEarned / totalPoints * 100 and
\* letterGrade = getLetterGrade(percentage).
\* The code breaks it: updateAssignment changes totalPoints without touching
\* the grades, updateGrade changes assignmentId without recomputing, and both
\* writes store a percentage or letterGrade the payload carries.
C26_StoredGradesConsistent ==
  \A g \in grades :
    ( /\ g.pointsEarned # Null
      /\ AssignmentExists(g.assignmentId)
      /\ TotalPointsOf(g.assignmentId) > 0 ) => IsConsistent(g)

\* C27: at most one stored grade for each (studentId, assignmentId).
\* The code breaks it: updateGrade writes the payload's assignmentId without
\* looking for a grade already stored for that pair.
C27_OneGradePerPair == UniquePairs(grades)

----------------------------------------------------------------------------
(* SpecEnrollRace: POST /api/enrollments requests in flight together.  The *)
(* handler awaits getStudentEnrollments and then enrollStudent, and        *)
(* another request's queries may run between the two.                      *)

\* POST /api/enrollments arrives and its body is parsed
EnrollBegin(i, studentId, classId) ==
  /\ requests[i] = NoRequest
  /\ requests' = [requests EXCEPT ![i] =
        [pc |-> "check", studentId |-> studentId, classId |-> classId]]
  /\ UNCHANGED <<users, students, classes, enrollments, assignments, grades, now, response>>

\* await storage.getStudentEnrollments(studentId), then the .some() test:
\* 400 when the student is already in the class
EnrollCheck(i) ==
  /\ requests[i].pc = "check"
  /\ requests' = [requests EXCEPT ![i] =
        IF AlreadyEnrolled(requests[i].studentId, requests[i].classId)
        THEN [requests[i] EXCEPT !.pc = "done"] @@ [status |-> 400]
        ELSE [requests[i] EXCEPT !.pc = "insert"]]
  /\ UNCHANGED <<users, students, classes, enrollments, assignments, grades, now, response>>

\* await storage.enrollStudent({ studentId, classId }): 201, or 500 when
\* the insert is refused
EnrollInsert(i) ==
  /\ requests[i].pc = "insert"
  /\ HasUnusedId(enrollments, EnrollmentIds)
  /\ IF EnrollmentInsertOk([studentId |-> requests[i].studentId, classId |-> requests[i].classId])
     THEN /\ enrollments' = enrollStudent(requests[i].studentId, requests[i].classId)
          /\ requests' = [requests EXCEPT ![i] = [@ EXCEPT !.pc = "done"] @@ [status |-> 201]]
     ELSE /\ enrollments' = enrollments
          /\ requests' = [requests EXCEPT ![i] = [@ EXCEPT !.pc = "done"] @@ [status |-> 500]]
  /\ UNCHANGED <<users, students, classes, assignments, grades, now, response>>

InitEnrollRace ==
  /\ users = SeedUsers
  /\ students = {[id |-> st] : st \in StudentUsers}
  /\ classes = {[id |-> 1, teacherId |-> "t1"], [id |-> 2, teacherId |-> "t2"]}
  /\ enrollments = {}
  /\ assignments = {}
  /\ grades = {}
  /\ now = 1
  /\ response = Idle
  /\ requests = [i \in RequestIds |-> NoRequest]

NextEnrollRace ==
  \/ \E i \in RequestIds, st \in StudentUsers, c \in ClassIds : EnrollBegin(i, st, c)
  \/ \E i \in RequestIds : EnrollCheck(i)
  \/ \E i \in RequestIds : EnrollInsert(i)

SpecEnrollRace == InitEnrollRace /\ [][NextEnrollRace]_vars

\* C28: once the requests in flight are all answered, no (studentId, classId)
\* pair has more than one enrollment row.
\* The code breaks it: two requests for the same pair that both read the
\* student's enrollments before either inserts both pass the test and both
\* insert; the table has no UNIQUE constraint on the pair.
C28_ConcurrentEnrollOneRow ==
  (\A i \in RequestIds : requests[i].pc \in {"none", "done"}) =>
    \A e, f \in enrollments :
      (e.studentId = f.studentId /\ e.classId = f.classId) => e.id = f.id

----------------------------------------------------------------------------
(* SpecDashboardSteps: getDashboardStats query by query.  The method       *)
(* awaits four queries in turn, outside any transaction, and other         *)
(* requests' writes may run between any two of them.                       *)

\* GET /api/dashboard/stats arrives; the route derives the scope
DashboardBegin(i, caller) ==
  /\ requests[i] = NoRequest
  /\ UserExists(caller)
  /\ requests' = [requests EXCEPT ![i] = [pc |-> "totalStudents", teacherId |-> ScopeOf(caller)]]
  /\ UNCHANGED <<users, students, classes, enrollments, assignments, grades, now, response>>

\* await totalStudentsQuery
DashboardTotalStudents(i) ==
  /\ requests[i].pc = "totalStudents"
  /\ requests' = [requests EXCEPT ![i] =
        [pc |-> "averageGrade", teacherId |-> @.teacherId,
         totalStudents |-> TotalStudents(@.teacherId)]]
  /\ UNCHANGED <<users, students, classes, enrollments, assignments, grades, now, response>>

\* await avgGradeQuery
DashboardAverageGrade(i) ==
  /\ requests[i].pc = "averageGrade"
  /\ requests' = [requests EXCEPT ![i] =
        [pc |-> "assignmentsDue", teacherId |-> @.teacherId,
         totalStudents |-> @.totalStudents,
         averageGrade |-> AverageGrade(@.teacherId)]]
  /\ UNCHANGED <<users, students, classes, enrollments, assignments, grades, now, response>>

\* await assignmentsDueQuery, the window starting at the clock's time
DashboardAssignmentsDue(i) ==
  /\ requests[i].pc = "assignmentsDue"
  /\ requests' = [requests EXCEPT ![i] =
        [pc |-> "activeClasses", teacherId |-> @.teacherId,
         totalStudents |-> @.totalStudents, averageGrade |-> @.averageGrade,
         assignmentsDue |-> AssignmentsDue(@.teacherId, now, now + Week)]]
  /\ UNCHANGED <<users, students, classes, enrollments, assignments, grades, now, response>>

\* await activeClassesQuery, and the four values are returned
DashboardActiveClasses(i) ==
  /\ requests[i].pc = "activeClasses"
  /\ requests' = [requests EXCEPT ![i] =
        [pc |-> "done", teacherId |-> @.teacherId,
         stats |-> [totalStudents |-> @.totalStudents, averageGrade |-> @.averageGrade,
                    assignmentsDue |-> @.assignmentsDue,
                    activeClasses |-> ActiveClasses(@.teacherId)]]]
  /\ UNCHANGED <<users, students, classes, enrollments, assignments, grades, now, response>>

NextDashboardSteps ==
  \/ CreateClass("ad", "t1")
  \/ \E c \in ClassIds : PostEnrollment("ad", "s1", c)
  \/ CreateAssignment("ad", 1, 5000, Ts(now))
  \/ CreateGrade("ad", "s1", 1, Dec(4600))
  \/ DeleteGrade("ad", 1)
  \/ DeleteAssignment("ad", 1)
  \/ \E c \in ClassIds : Unenroll("ad", "s1", c)
  \/ \E id \in ClassIds : DeleteClass("ad", id)
  \/ Send
  \/ \E i \in RequestIds : DashboardBegin(i, "t1")
  \/ \E i \in RequestIds : DashboardTotalStudents(i)
  \/ \E i \in RequestIds : DashboardAverageGrade(i)
  \/ \E i \in RequestIds : DashboardAssignmentsDue(i)
  \/ \E i \in RequestIds : DashboardActiveClasses(i)

SpecDashboardSteps == InitDashboard /\ [][NextDashboardSteps]_vars

\* In every state of the store the foreign keys make a scope with an
\* enrolled student, a grade that has a percentage or an assignment due hold
\* at least one class
DescribesOneState(stats) ==
  (stats.totalStudents > 0 \/ stats.averageGrade # "-" \/ stats.assignmentsDue > 0)
    => stats.activeClasses > 0

\* C30: the four values one getDashboardStats call returns describe one
\* state of the store; a fortiori they never show students, an average or
\* assignments due together with zero classes.
\* The code breaks it: the four queries are awaited one after the other with
\* no transaction, and a class emptied and deleted between the first and the
\* last is still counted in the earlier values.
C30_DashboardValuesOfOneState ==
  \A i \in RequestIds : requests[i].pc = "done" => DescribesOneState(requests[i].stats)

----------------------------------------------------------------------------
(* SpecValidation: the create and update routes from the request body on.  *)
(* A body is described by what it holds for each field of the route's      *)
(* schema: a value of the right type ("ok"), nothing ("absent"), or a      *)
(* value of another type or null for a NOT NULL column ("wrong").  Each    *)
(* route parses the body first; a body that parses is handled with the     *)
(* values given beside it.                                                 *)

\* createInsertSchema(table).omit(...): a NOT NULL column without default is
\* a required field, every other column an optional one
insertStudentSchema ==
  [studentId |-> "required", firstName |-> "required", lastName |-> "required",
   email |-> "optional", profileImageUrl |-> "optional"]

insertClassSchema ==
  [name |-> "required", subject |-> "required", teacherId |-> "required",
   description |-> "optional"]

insertAssignmentSchema ==
  [title |-> "required", description |-> "optional", classId |-> "required",
   totalPoints |-> "required", dueDate |-> "optional"]

insertGradeSchema ==
  [studentId |-> "required", assignmentId |-> "required", pointsEarned |-> "optional",
   percentage |-> "optional", letterGrade |-> "optional", comments |-> "optional"]

insertEnrollmentSchema == [studentId |-> "required", classId |-> "required"]

\* schema.partial(): every field optional
Partial(schema) == [f \in DOMAIN schema |-> "optional"]

\* A parse that checks types only and lets missing fields through
ZodErrorsTypesOnly(schema, shape) == {f \in DOMAIN schema : shape[f] = "wrong"}

\* schema.parse(body): the fields of the ZodError it throws (none: it parses)
ZodErrors(schema, shape) ==
  {f \in DOMAIN schema : shape[f] = "wrong" \/ (shape[f] = "absent" /\ schema[f] = "required")}

\* The bodies sent: complete, empty, and complete but for one field
Shapes(schema) ==
  {[f \in DOMAIN schema |-> "absent"]}
    \cup {[f \in DOMAIN schema |-> IF f = g THEN d ELSE "ok"] :
            g \in DOMAIN schema, d \in {"ok", "absent", "wrong"}}

\* catch (error) { if (error instanceof z.ZodError) return
\* res.status(400).json({ message, errors: error.errors }) }
RejectInvalid(op, caller, shape, errors) ==
  /\ Authenticated(caller)
  /\ response' = [op |-> op, caller |-> caller, status |-> 400, shape |-> shape, errors |-> errors]
  /\ UNCHANGED <<users, students, classes, enrollments, assignments, grades, now, requests>>

\* POST /api/students; the parsed payload has no password field
RouteCreateStudent(caller, shape, studentId) ==
  LET errors == ZodErrors(insertStudentSchema, shape)
  IN IF errors # {} THEN RejectInvalid("POST /api/students", caller, shape, errors)
     ELSE CreateStudent(caller, studentId, NoText, FALSE)

\* storage.updateStudent with a payload that carries studentId, no email and
\* no password: one update of the students row
UpdateStudent(caller, id, studentId) ==
  /\ Authenticated(caller)
  /\ IF \E st \in students : st.id # id /\ st.studentId = studentId
     THEN /\ students' = students
          /\ response' = [op |-> "updateStudent", caller |-> caller, userId |-> id, status |-> 500]
     ELSE /\ students' = {IF st.id = id THEN [st EXCEPT !.studentId = studentId] ELSE st :
                            st \in students}
          /\ response' = [op |-> "updateStudent", caller |-> caller, userId |-> id, status |-> 200]
  /\ UNCHANGED <<users, classes, enrollments, assignments, grades, now, requests>>

\* PUT /api/students/:id
RouteUpdateStudent(caller, shape, id, studentId) ==
  LET errors == ZodErrors(Partial(insertStudentSchema), shape)
  IN IF errors # {} THEN RejectInvalid("PUT /api/students/:id", caller, shape, errors)
     ELSE UpdateStudent(caller, id, studentId)

\* { ...req.body, teacherId }: the teacherId parsed is the body's for an
\* admin and the caller's id for anyone else
ClassBody(caller, shape) ==
  [shape EXCEPT !.teacherId = IF RoleOf(caller) = "admin" THEN @ ELSE "ok"]

\* POST /api/classes
RouteCreateClass(caller, shape, teacherId) ==
  LET errors == ZodErrors(insertClassSchema, ClassBody(caller, shape))
  IN IF errors # {} THEN RejectInvalid("POST /api/classes", caller, shape, errors)
     ELSE CreateClass(caller, teacherId)

\* PUT /api/classes/:id
RouteUpdateClass(caller, shape, id, teacherId) ==
  LET errors == ZodErrors(Partial(insertClassSchema), shape)
  IN IF errors # {} THEN RejectInvalid("PUT /api/classes/:id", caller, shape, errors)
     ELSE UpdateClass(caller, id, teacherId)

\* { ...req.body, dueDate: new Date(req.body.dueDate) }: without a dueDate
\* in the body the field parsed is an Invalid Date, which the schema refuses
AssignmentBody(shape) == [shape EXCEPT !.dueDate = IF @ = "absent" THEN "wrong" ELSE @]

\* POST /api/assignments
RouteCreateAssignment(caller, shape, classId) ==
  LET errors == ZodErrors(insertAssignmentSchema, AssignmentBody(shape))
  IN IF errors # {} THEN RejectInvalid("POST /api/assignments", caller, shape, errors)
     ELSE CreateAssignment(caller, classId, 5000, Ts(2))

\* PUT /api/assignments/:id
RouteUpdateAssignment(caller, shape, id, totalPoints) ==
  LET errors == ZodErrors(Partial(insertAssignmentSchema), shape)
  IN IF errors # {} THEN RejectInvalid("PUT /api/assignments/:id", caller, shape, errors)
     ELSE SetTotalPoints(caller, id, totalPoints)

\* POST /api/grades
RouteCreateGrade(caller, shape, studentId, assignmentId) ==
  LET errors == ZodErrors(insertGradeSchema, shape)
  IN IF errors # {} THEN RejectInvalid("POST /api/grades", caller, shape, errors)
     ELSE CreateGrade(caller, studentId, assignmentId, Dec(4500))

\* PUT /api/grades/:id
RouteUpdateGrade(caller, shape, id) ==
  LET errors == ZodErrors(Partial(insertGradeSchema), shape)
  IN IF errors # {} THEN RejectInvalid("PUT /api/grades/:id", caller, shape, errors)
     ELSE UpdateGrade(caller, id, Dec(4850), 0)

\* POST /api/enrollments
RouteEnroll(caller, shape, studentId, classId) ==
  LET errors == ZodErrors(insertEnrollmentSchema, shape)
  IN IF errors # {} THEN RejectInvalid("POST /api/enrollments", caller, shape, errors)
     ELSE PostEnrollment(caller, studentId, classId)

InitValidation ==
  /\ users = SeedUsers
  /\ students = {[id |-> "s1", studentId |-> "S1", email |-> NoText],
                 [id |-> "s2", studentId |-> "S2", email |-> NoText]}
  /\ classes = {}
  /\ enrollments = {}
  /\ assignments = {}
  /\ grades = {}
  /\ now = 1
  /\ response = Idle
  /\ requests = [i \in RequestIds |-> NoRequest]

\* The callers of SpecValidation: a teacher and the admin
Callers == {"t1", "ad"}

NextValidation ==
  \/ \E shape \in Shapes(insertStudentSchema) : RouteCreateStudent("ad", shape, "S3")
  \/ \E shape \in Shapes(insertStudentSchema), n \in {"S2", "S3"} :
        RouteUpdateStudent("ad", shape, "s1", n)
  \/ \E caller \in Callers, shape \in Shapes(insertClassSchema) :
        RouteCreateClass(caller, shape, "t1")
  \/ \E shape \in Shapes(insertClassSchema) : RouteUpdateClass("ad", shape, 1, "t2")
  \/ \E shape \in Shapes(insertAssignmentSchema) : RouteCreateAssignment("t1", shape, 1)
  \/ \E shape \in Shapes(insertAssignmentSchema) : RouteUpdateAssignment("t1", shape, 1, 10000)
  \/ \E shape \in Shapes(insertGradeSchema) : RouteCreateGrade("t1", shape, "s1", 1)
  \/ \E shape \in Shapes(insertGradeSchema) : RouteUpdateGrade("t1", shape, 1)
  \/ \E shape \in Shapes(insertEnrollmentSchema) : RouteEnroll("t1", shape, "s1", 1)
  \/ Send

SpecValidation == InitValidation /\ [][NextValidation]_vars

\* The body fails the schema: a field of another type, or a required field
\* left out
FailsValidation(schema, shape) ==
  \E f \in DOMAIN schema :
     shape[f] = "wrong" \/ (shape[f] = "absent" /\ schema[f] = "required")

\* The step answers 400 with a non-empty list of fields, each of them a field
\* the parsed body does not hold a proper value for, every ill-typed field
\* among them, and leaves every table as it was
IsRejection(shape, parsed) ==
  /\ "errors" \in DOMAIN response'
  /\ response'.status = 400
  /\ response'.shape = shape
  /\ response'.errors # {}
  /\ \A f \in response'.errors : parsed[f] # "ok"
  /\ \A f \in DOMAIN parsed : parsed[f] = "wrong" => f \in response'.errors
  /\ tables' = tables

\* C23: a create or update request for a student, class, assignment, grade
\* or enrollment whose body fails the route's schema is answered 400 with
\* the list of the offending fields, and no table is changed.
C23_InvalidBodyRejectedWithoutWrite ==
  [][/\ \A shape \in Shapes(insertStudentSchema) :
          ( /\ FailsValidation(insertStudentSchema, shape)
            /\ RouteCreateStudent("ad", shape, "S3") ) => IsRejection(shape, shape)
     /\ \A shape \in Shapes(insertStudentSchema), n \in {"S2", "S3"} :
          ( /\ FailsValidation(Partial(insertStudentSchema), shape)
            /\ RouteUpdateStudent("ad", shape, "s1", n) ) => IsRejection(shape, shape)
     /\ \A caller \in Callers, shape \in Shapes(insertClassSchema) :
          ( /\ FailsValidation(insertClassSchema, ClassBody(caller, shape))
            /\ RouteCreateClass(caller, shape, "t1") ) =>
          IsRejection(shape, ClassBody(caller, shape))
     /\ \A shape \in Shapes(insertClassSchema) :
          ( /\ FailsValidation(Partial(insertClassSchema), shape)
            /\ RouteUpdateClass("ad", shape, 1, "t2") ) => IsRejection(shape, shape)
     /\ \A shape \in Shapes(insertAssignmentSchema) :
          ( /\ FailsValidation(insertAssignmentSchema, AssignmentBody(shape))
            /\ RouteCreateAssignment("t1", shape, 1) ) =>
          IsRejection(shape, AssignmentBody(shape))
     /\ \A shape \in Shapes(insertAssignmentSchema) :
          ( /\ FailsValidation(Partial(insertAssignmentSchema), shape)
            /\ RouteUpdateAssignment("t1", shape, 1, 10000) ) => IsRejection(shape, shape)
     /\ \A shape \in Shapes(insertGradeSchema) :
          ( /\ FailsValidation(insertGradeSchema, shape)
            /\ RouteCreateGrade("t1", shape, "s1", 1) ) => IsRejection(shape, shape)
     /\ \A shape \in Shapes(insertGradeSchema) :
          ( /\ FailsValidation(Partial(insertGradeSchema), shape)
            /\ RouteUpdateGrade("t1", shape, 1) ) => IsRejection(shape, shape)
     /\ \A shape \in Shapes(insertEnrollmentSchema) :
          ( /\ FailsValidation(insertEnrollmentSchema, shape)
            /\ RouteEnroll("t1", shape, "s1", 1) ) => IsRejection(shape, shape)]_vars

\* A grade is stored, and a POST /api/grades with an empty body has just
\* been answered 400 naming both required fields
C23_Witness ==
  /\ "errors" \in DOMAIN response
  /\ response.op = "POST /api/grades"
  /\ response.status = 400
  /\ response.errors = {"studentId", "assignmentId"}
  /\ grades # {}

====
